---- MODULE Spec2Model ----
(***************************************************************************)
(* Model of the crawl frontier (workers/parsing_worker.py), the parser     *)
(* generation worker (workers/parser_generation_worker.py), the object     *)
(* store (db.py), the work queues (redis_queue.py) and the pure helpers    *)
(* they use (data_models.py).                                              *)
(*                                                                         *)
(* A URL string is held split on "/" (the list url.split('/') yields), so  *)
(* "http://a.com/docs/p01" is <<"http:", "", "a.com", "docs", "p01">>;     *)
(* split and '/'.join are then the identity on this form.  Optional values *)
(* (None or a value) are the empty set or a singleton set.                 *)
(***************************************************************************)
EXTENDS Naturals, Integers, Sequences, FiniteSets, TLC

VARIABLES
    store_prefix,   \* model:URLPrefix:<id>  -> stored URLPrefix
    store_url,      \* model:URL:<id>        -> stored URL row
    q_url,          \* redis list queue:urlqueueitem (index 1 = left end)
    q_prefix,       \* redis list queue:urlprefix    (index 1 = left end)
    now,            \* int(time.time())
    cw,             \* crawl workers: position and locals of process_url_queue_item
    sw,             \* synthesis workers: position and locals of process_url_prefix_job
    fn              \* the pure-function specifications' input/output cell

vars == <<store_prefix, store_url, q_url, q_prefix, now, cw, sw, fn>>

(***************************************************************************)
(* Bounds of the model and constants of the program.                       *)
(***************************************************************************)
NumCrawlWorkers == 2
NumSynthWorkers == 2
MaxTime == 30
URL_CAP == 20
REQUEUE_DELAY == 30

CrawlWorkers == 1..NumCrawlWorkers
SynthWorkers == 1..NumSynthWorkers

None == {}
Some(x) == {x}
The(s) == CHOOSE x \in s : TRUE

(***************************************************************************)
(* The crawled site: one directory of pages under http://a.com/docs.       *)
(* Pages 1..CapPages are plain pages; three more pages behave specially:   *)
(* the fetch of FlakyPage may fail, EmptyPage extracts to the empty text,  *)
(* and extraction of BrokenPage raises.                                    *)
(***************************************************************************)
PageNames ==
    <<"p01", "p02", "p03", "p04", "p05", "p06", "p07", "p08", "p09", "p10",
      "p11", "p12", "p13", "p14", "p15", "p16", "p17", "p18", "p19", "p20",
      "p21", "p22", "p23", "p24", "p25", "p26", "p27", "p28", "p29", "p30">>

CapPages == URL_CAP + NumCrawlWorkers

FlakyPage == CapPages + 1
EmptyPage == CapPages + 2
BrokenPage == CapPages + 3
NumPages == CapPages + 3

DocsPrefix == <<"http:", "", "a.com", "docs">>

PageUrl(i) == DocsPrefix \o <<PageNames[i]>>

Urls == {PageUrl(i) : i \in 1..NumPages}

\* response.text of a successful GET
RawOf(u) == "html:" \o u[Len(u)]

\* the hrefs of the page at u, resolved and normalized, in document order:
\* FlakyPage links to itself, to EmptyPage twice and to another site,
\* EmptyPage links to BrokenPage and back to FlakyPage; plain pages link to
\* themselves only
PageLinks(u) ==
    IF u = PageUrl(FlakyPage)
    THEN <<u, PageUrl(EmptyPage), PageUrl(EmptyPage), <<"http:", "", "b.org", "x">> >>
    ELSE IF u = PageUrl(EmptyPage)
    THEN <<PageUrl(BrokenPage), PageUrl(FlakyPage)>>
    ELSE <<u>>

(***************************************************************************)
(* Strings in split form.                                                  *)
(***************************************************************************)
\* str.startswith on single segments, for the segments of this site
SegStartsWith(a, b) == a = b \/ b = ""

\* '/'.join(u).startswith('/'.join(p))
StartsWith(u, p) ==
    /\ Len(p) >= 1
    /\ Len(u) >= Len(p)
    /\ SubSeq(u, 1, Len(p) - 1) = SubSeq(p, 1, Len(p) - 1)
    /\ SegStartsWith(u[Len(p)], p[Len(p)])

RECURSIVE PopEmpty(_)
\* while parts and not parts[-1]: parts.pop()
PopEmpty(parts) ==
    IF Len(parts) > 0 /\ parts[Len(parts)] = ""
    THEN PopEmpty(SubSeq(parts, 1, Len(parts) - 1))
    ELSE parts

\* ParsingWorker.get_deepest_prefix on a URL without query or fragment
get_deepest_prefix(url) ==
    IF Len(url) > 3
    THEN LET parts == PopEmpty(url)
         IN  IF Len(parts) > 0 THEN SubSeq(parts, 1, Len(parts) - 1) ELSE parts
    ELSE url

\* no removal of duplicates
KeepDuplicates(links, seen) == links

RECURSIVE Dedup(_, _)
\* "Remove duplicates while preserving order"
Dedup(links, seen) ==
    IF links = <<>> THEN <<>>
    ELSE IF Head(links) \in seen THEN Dedup(Tail(links), seen)
    ELSE <<Head(links)>> \o Dedup(Tail(links), seen \cup {Head(links)})

KeepLink(l, base_url, target_prefix) ==
    /\ l[1] \in {"http:", "https:"}
    /\ l # base_url
    /\ StartsWith(l, target_prefix)

\* ParsingWorker.extract_links_from_html over the page's resolved links
ExtractLinks(base_url, target_prefix) ==
    Dedup(SelectSeq(PageLinks(base_url),
                    LAMBDA l : KeepLink(l, base_url, target_prefix)), {})

(***************************************************************************)
(* Object store (db.py) and work queues (redis_queue.py).                  *)
(***************************************************************************)
\* db.load: the stored value or None
load(store, id) == IF id \in DOMAIN store THEN Some(store[id]) ELSE None

\* a mutation of save: an entry that exists is left as it is
save_if_absent(store, id, value) ==
    [k \in DOMAIN store \cup {id} |-> IF k \in DOMAIN store THEN store[k] ELSE value]

\* db.save: R.set overwrites the whole entry
save(store, id, value) == [k \in DOMAIN store \cup {id} |->
                              IF k = id THEN value ELSE store[k]]

\* db.find_urls_with_prefix: scan of all URL rows, filtered on the prefix field
find_urls_with_prefix(store, prefix) ==
    {u \in DOMAIN store : store[u].prefix = prefix}

\* a push at the end get_from_queue pops from (R.rpush)
add_to_queue_rpush(q, model) == q \o <<model>>

\* redis_queue.add_to_queue: R.lpush
add_to_queue(q, model) == <<model>> \o q

\* redis_queue.get_from_queue: R.rpop, the popped value
QueueFront(q) == q[Len(q)]

\* redis_queue.get_from_queue: R.rpop, the list left behind
QueueRest(q) == SubSeq(q, 1, Len(q) - 1)

(***************************************************************************)
(* Records.                                                                *)
(***************************************************************************)
\* data_models.URLQueueItem together with the fields of its URL
URLQueueItem(url, prefix, ts, tq) ==
    [url |-> url, prefix |-> prefix,
     process_from_unix_timestamp |-> ts, times_queued |-> tq]

\* data_models.SampleURL(url=..., raw_content=...)
SampleURL(url, raw) == [url |-> url, raw_content |-> raw]

\* data_models.URLPrefix
URLPrefix(prefix, samples, config, status) ==
    [prefix |-> prefix, sample_urls |-> samples,
     parser_config |-> config, processing_status |-> status]

\* data_models.URL as stored
URLRow(url, prefix, raw, parsed) ==
    [url |-> url, prefix |-> prefix, raw_content |-> raw, parsed_content |-> parsed]

\* one entry of a worker's record of what it did for the item in hand
Eff(op, key, ts, tq, st, val) ==
    [op |-> op, key |-> key, ts |-> ts, tq |-> tq, st |-> st, val |-> val]

NoItem == URLQueueItem(<<>>, <<>>, 0, 0)

CwIdle == [pc |-> "idle", item |-> NoItem, t0 |-> 0, fi |-> 0, prefix |-> None,
           count |-> 0, raw |-> "", parsed |-> "", links |-> <<>>,
           existing |-> None, saved |-> None, log |-> <<>>, result |-> ""]


(***************************************************************************)
(* Crawl worker: ParsingWorker.run and process_url_queue_item, one action  *)
(* per store, queue or network operation.                                  *)
(***************************************************************************)
CwSet(w, r) == cw' = [cw EXCEPT ![w] = r]

CwLog(w, e) == Append(cw[w].log, e)

CwDone(w, result, log) == [cw[w] EXCEPT !.pc = "done", !.result = result, !.log = log]

\* the outcomes of load_raw_html: the page, or (for a flaky page) an exception
FetchOutcomes(url) ==
    IF url = PageUrl(FlakyPage) THEN {Some(RawOf(url)), None} ELSE {Some(RawOf(url))}

\* Parser(config).parse(raw_content): the extracted text, or an exception
ParseOutcome(raw) ==
    IF raw = RawOf(PageUrl(BrokenPage)) THEN None
    ELSE IF raw = RawOf(PageUrl(EmptyPage)) THEN Some("")
    ELSE Some("text:" \o raw)

\* run: queue_item = get_from_queue(URLQueueItem)
CwPop(w) ==
    /\ cw[w].pc = "idle"
    /\ Len(q_url) > 0
    /\ q_url' = QueueRest(q_url)
    /\ CwSet(w, [CwIdle EXCEPT !.pc = "start", !.item = QueueFront(q_url)])
    /\ UNCHANGED <<store_prefix, store_url, q_prefix, now, sw, fn>>

\* the log entry of a push onto the URL queue
PushUrlEff(item) ==
    Eff("push_url", item.url, item.process_from_unix_timestamp, item.times_queued,
        "", <<>>)

\* a mutation of DeferredItem: the deferred path counting the pass as a requeue
DeferredItemCounted(item) == [item EXCEPT !.times_queued = @ + 1]

\* the item as the deferred path puts it back: add_to_queue(queue_item), untouched
DeferredItem(item) == item

\* current_time < process_from_unix_timestamp: put the item back unchanged
CwDefer(w) ==
    /\ cw[w].pc = "start"
    /\ now < cw[w].item.process_from_unix_timestamp
    /\ q_url' = add_to_queue(q_url, DeferredItem(cw[w].item))
    /\ CwSet(w, [CwDone(w, "deferred", CwLog(w, PushUrlEff(DeferredItem(cw[w].item))))
                 EXCEPT !.t0 = now])
    /\ UNCHANGED <<store_prefix, store_url, q_prefix, now, sw, fn>>

\* the item is due: go on to find_prefix_for_url
CwDue(w) ==
    /\ cw[w].pc = "start"
    /\ ~(now < cw[w].item.process_from_unix_timestamp)
    /\ CwSet(w, [cw[w] EXCEPT !.pc = "find", !.t0 = now, !.fi = Len(cw[w].item.url)])
    /\ UNCHANGED <<store_prefix, store_url, q_url, q_prefix, now, sw, fn>>

\* db.find_prefix_for_url: one load per candidate, longest first
CwFindPrefix(w) ==
    /\ cw[w].pc = "find"
    /\ LET c     == cw[w]
           cand  == SubSeq(c.item.url, 1, c.fi)
           found == IF c.fi >= 1 THEN load(store_prefix, cand) ELSE None
           log   == IF c.fi >= 1 THEN CwLog(w, Eff("load_prefix", cand, 0, 0, "", <<>>))
                    ELSE c.log
       IN  CwSet(w, IF found # None
                    THEN [c EXCEPT !.pc = "scan", !.prefix = found, !.log = log]
                    ELSE IF c.fi <= 1
                    THEN [c EXCEPT !.pc = "nc_fetch", !.prefix = None, !.log = log]
                    ELSE [c EXCEPT !.fi = c.fi - 1, !.log = log])
    /\ UNCHANGED <<store_prefix, store_url, q_url, q_prefix, now, sw, fn>>

\* a mutation of ShouldDrop: the cap applied only to prefixes that have a config
ShouldDropWithConfigOnly(url_prefix, url_count) ==
    url_prefix.parser_config # None /\ url_count >= URL_CAP

\* a mutation of ShouldDrop: the cap compared with > instead of >=
ShouldDropAbove(url_prefix, url_count) == url_count > URL_CAP

\* if url_prefix: ... if url_count >= 20: the item is dropped
ShouldDrop(url_prefix, url_count) == url_count >= URL_CAP

\* the cap: len(find_urls_with_prefix(url_prefix.prefix)) >= 20 drops the item
CwScan(w) ==
    /\ cw[w].pc = "scan"
    /\ LET c     == cw[w]
           pfx   == The(c.prefix)
           count == Cardinality(find_urls_with_prefix(store_url, pfx.prefix))
           log   == CwLog(w, Eff("scan_urls", pfx.prefix, 0, 0, "", <<>>))
       IN  CwSet(w, IF ShouldDrop(pfx, count)
                    THEN [CwDone(w, "dropped", log) EXCEPT !.count = count]
                    ELSE IF pfx.parser_config # None
                    THEN [c EXCEPT !.pc = "load_url", !.count = count, !.log = log]
                    ELSE [c EXCEPT !.pc = "nc_fetch", !.count = count, !.log = log])
    /\ UNCHANGED <<store_prefix, store_url, q_url, q_prefix, now, sw, fn>>

\* a mutation of AlreadyParsed: any stored row counts, parsed or not
AlreadyStored(existing_url) == existing_url # None

\* if existing_url and existing_url.parsed_content
AlreadyParsed(existing_url) ==
    existing_url # None /\ The(existing_url).parsed_content # ""

\* existing_url = load(URL, url): already parsed rows are skipped
CwLoadUrl(w) ==
    /\ cw[w].pc = "load_url"
    /\ LET c        == cw[w]
           existing == load(store_url, c.item.url)
           log      == CwLog(w, Eff("load_url", c.item.url, 0, 0, "", <<>>))
       IN  CwSet(w, IF AlreadyParsed(existing)
                    THEN CwDone(w, "skipped", log)
                    ELSE [c EXCEPT !.pc = "fetch", !.log = log])
    /\ UNCHANGED <<store_prefix, store_url, q_url, q_prefix, now, sw, fn>>

\* a mutation of FetchFailed: the failure reported as a success
FetchFailedSucceeds(w, log) == CwDone(w, "success", log)

\* except Exception: return {"status": "error", ...} after a failed fetch or a
\* failed extraction
FetchFailed(w, log) == CwDone(w, "error", log)

\* raw_content = load_raw_html(url), then parser.parse(raw_content)
CwFetch(w) ==
    /\ cw[w].pc = "fetch"
    /\ \E got \in FetchOutcomes(cw[w].item.url) :
         LET c   == cw[w]
             log == CwLog(w, Eff("fetch", c.item.url, 0, 0, "", <<>>))
         IN  IF got = None
             THEN CwSet(w, FetchFailed(w, log))
             ELSE LET text == ParseOutcome(The(got))
                  IN  CwSet(w, IF text = None
                               THEN FetchFailed(w, log)
                               ELSE [c EXCEPT !.pc = "save_url", !.raw = The(got),
                                              !.parsed = The(text), !.log = log])
    /\ UNCHANGED <<store_prefix, store_url, q_url, q_prefix, now, sw, fn>>

\* save(queue_item.url), then extract_links_from_html
CwSaveUrl(w) ==
    /\ cw[w].pc = "save_url"
    /\ LET c   == cw[w]
           pfx == The(c.prefix)
           row == URLRow(c.item.url, pfx.prefix, c.raw, c.parsed)
       IN  /\ store_url' = save(store_url, c.item.url, row)
           /\ CwSet(w, [c EXCEPT !.pc = "link_load",
                                 !.links = ExtractLinks(c.item.url, pfx.prefix),
                                 !.log = CwLog(w, Eff("save_url", c.item.url, 0, 0, "", <<>>))])
    /\ UNCHANGED <<store_prefix, q_url, q_prefix, now, sw, fn>>

\* for link_url in links_with_prefix: existing_link_url = load(URL, link_url)
CwLinkLoad(w) ==
    /\ cw[w].pc = "link_load"
    /\ LET c == cw[w]
       IN  IF c.links = <<>>
           THEN CwSet(w, CwDone(w, "success", c.log))
           ELSE LET existing == load(store_url, Head(c.links))
                    log      == CwLog(w, Eff("load_url", Head(c.links), 0, 0, "", <<>>))
                IN  CwSet(w, IF existing # None /\ The(existing).parsed_content # ""
                             THEN [c EXCEPT !.links = Tail(c.links), !.log = log]
                             ELSE [c EXCEPT !.pc = "link_push", !.log = log])
    /\ UNCHANGED <<store_prefix, store_url, q_url, q_prefix, now, sw, fn>>

\* a mutation of LinkItem: the outlink queued with the delay of a requeue
LinkItemDelayed(link, prefix, t) == URLQueueItem(link, prefix, t + REQUEUE_DELAY, 0)

\* URLQueueItem(url=URL(url=link_url, prefix=url_prefix.prefix),
\*              process_from_unix_timestamp=int(time.time()), times_queued=0)
LinkItem(link, prefix, t) == URLQueueItem(link, prefix, t, 0)

\* add_to_queue(URLQueueItem(url=URL(link, prefix), int(time.time()), 0))
CwLinkPush(w) ==
    /\ cw[w].pc = "link_push"
    /\ LET c    == cw[w]
           link == Head(c.links)
           item == LinkItem(link, The(c.prefix).prefix, now)
       IN  /\ q_url' = add_to_queue(q_url, item)
           /\ CwSet(w, [c EXCEPT !.pc = "link_load", !.links = Tail(c.links),
                                 !.log = CwLog(w, PushUrlEff(item))])
    /\ UNCHANGED <<store_prefix, store_url, q_prefix, now, sw, fn>>


\* a mutation of NcFetchFailed: the item re-enqueued although the fetch failed
NcFetchFailedRequeues(w, log) == [cw[w] EXCEPT !.pc = "nc_requeue", !.log = log]

\* except Exception: return {"status": "error", ...}, before the re-enqueue
NcFetchFailed(w, log) == CwDone(w, "error", log)

\* no prefix, or a prefix without parser config: raw_content = load_raw_html(url)
CwNcFetch(w) ==
    /\ cw[w].pc = "nc_fetch"
    /\ \E got \in FetchOutcomes(cw[w].item.url) :
         LET c   == cw[w]
             log == CwLog(w, Eff("fetch", c.item.url, 0, 0, "", <<>>))
         IN  CwSet(w, IF got = None
                      THEN NcFetchFailed(w, log)
                      ELSE [c EXCEPT !.pc = "nc_load", !.raw = The(got), !.log = log])
    /\ UNCHANGED <<store_prefix, store_url, q_url, q_prefix, now, sw, fn>>

\* existing_prefix = load(URLPrefix, deepest_prefix)
CwNcLoad(w) ==
    /\ cw[w].pc = "nc_load"
    /\ LET c       == cw[w]
           deepest == get_deepest_prefix(c.item.url)
       IN  CwSet(w, [c EXCEPT !.pc = "nc_save",
                              !.existing = load(store_prefix, deepest),
                              !.log = CwLog(w, Eff("load_prefix", deepest, 0, 0, "", <<>>))])
    /\ UNCHANGED <<store_prefix, store_url, q_url, q_prefix, now, sw, fn>>

\* the URLPrefix the no-config path saves: the loaded one with the sample
\* appended, or a new one holding the sample alone
NcPrefixToSave(existing, deepest, sample) ==
    IF existing # None
    THEN [The(existing) EXCEPT !.sample_urls = Append(@, sample)]
    ELSE URLPrefix(deepest, <<sample>>, None, "none")

\* save(existing_prefix) or save(new_prefix)
CwNcSave(w) ==
    /\ cw[w].pc = "nc_save"
    /\ LET c       == cw[w]
           deepest == get_deepest_prefix(c.item.url)
           rec     == NcPrefixToSave(c.existing, deepest, SampleURL(c.item.url, c.raw))
       IN  /\ store_prefix' = save(store_prefix, deepest, rec)
           /\ CwSet(w, [c EXCEPT !.pc = "nc_pushp", !.saved = Some(rec),
                                 !.log = CwLog(w, Eff("save_prefix", deepest, 0, 0,
                                                      rec.processing_status, rec.sample_urls))])
    /\ UNCHANGED <<store_url, q_url, q_prefix, now, sw, fn>>

\* add_to_queue(new_prefix if not existing_prefix else existing_prefix)
CwNcPushPrefix(w) ==
    /\ cw[w].pc = "nc_pushp"
    /\ LET c   == cw[w]
           rec == The(c.saved)
       IN  /\ q_prefix' = add_to_queue(q_prefix, rec)
           /\ CwSet(w, [c EXCEPT !.pc = "nc_requeue",
                                 !.log = CwLog(w, Eff("push_prefix", rec.prefix, 0, 0,
                                                      rec.processing_status, rec.sample_urls))])
    /\ UNCHANGED <<store_prefix, store_url, q_url, now, sw, fn>>

\* a mutation of RequeuedItem: the counter left as it was
RequeuedItemSameCount(item, t) ==
    [item EXCEPT !.process_from_unix_timestamp = t + REQUEUE_DELAY]

\* the item as the no-config path puts it back: 30 seconds on, times_queued + 1
RequeuedItem(item, t) ==
    [item EXCEPT !.process_from_unix_timestamp = t + REQUEUE_DELAY,
                 !.times_queued = @ + 1]

\* queue_item.process_from_unix_timestamp = int(time.time()) + 30; add_to_queue(queue_item)
CwNcRequeue(w) ==
    /\ cw[w].pc = "nc_requeue"
    /\ LET c    == cw[w]
           item == RequeuedItem(c.item, now)
       IN  /\ q_url' = add_to_queue(q_url, item)
           /\ CwSet(w, CwDone(w, "requeued", CwLog(w, PushUrlEff(item))))
    /\ UNCHANGED <<store_prefix, store_url, q_prefix, now, sw, fn>>

\* run: the result is logged and the loop takes its next iteration
CwFinish(w) ==
    /\ cw[w].pc = "done"
    /\ CwSet(w, CwIdle)
    /\ UNCHANGED <<store_prefix, store_url, q_url, q_prefix, now, sw, fn>>

CrawlStep(w) ==
    \/ CwPop(w)
    \/ CwDefer(w)
    \/ CwDue(w)
    \/ CwFindPrefix(w)
    \/ CwScan(w)
    \/ CwLoadUrl(w)
    \/ CwFetch(w)
    \/ CwSaveUrl(w)
    \/ CwLinkLoad(w)
    \/ CwLinkPush(w)
    \/ CwNcFetch(w)
    \/ CwNcLoad(w)
    \/ CwNcSave(w)
    \/ CwNcPushPrefix(w)
    \/ CwNcRequeue(w)
    \/ CwFinish(w)


(***************************************************************************)
(* Synthesis worker: ParserGenerationWorker.run and process_url_prefix_job.*)
(***************************************************************************)
NoJob == URLPrefix(<<>>, <<>>, None, "none")

SwIdle == [pc |-> "idle", job |-> NoJob, url_prefix |-> NoJob, existing |-> None,
           raised |-> FALSE, log |-> <<>>, result |-> ""]

SwSet(s, r) == sw' = [sw EXCEPT ![s] = r]

SwLog(s, op, rec) ==
    Append(sw[s].log, Eff(op, rec.prefix, 0, 0, rec.processing_status, rec.sample_urls))

\* the ParserConfig generate_parser returns for a prefix
ConfigFor(url_prefix) == [prefix_name |-> url_prefix.prefix]

\* the outcomes of generate_parser_for_url_prefix: a parser config, or an exception
\* from get_production_generator_config or from generate_parser
GenerateOutcomes(url_prefix) == {"ok", "no_production_config", "generate_parser_raised"}

\* run: url_prefix = get_from_queue(URLPrefix)
SwPop(s) ==
    /\ sw[s].pc = "idle"
    /\ Len(q_prefix) > 0
    /\ q_prefix' = QueueRest(q_prefix)
    /\ SwSet(s, [SwIdle EXCEPT !.pc = "load", !.job = QueueFront(q_prefix),
                               !.url_prefix = QueueFront(q_prefix)])
    /\ UNCHANGED <<store_prefix, store_url, q_url, now, cw, fn>>

\* a mutation of InProgress: the guard never taken
InProgressNever(status) == FALSE

\* if existing_prefix.processing_status == "in_progress"
InProgress(status) == status = "in_progress"

\* existing_prefix = load(URLPrefix, url_prefix.prefix) and the status checks
SwLoad(s) ==
    /\ sw[s].pc = "load"
    /\ LET c        == sw[s]
           existing == load(store_prefix, c.job.prefix)
           status   == IF existing = None THEN "absent"
                       ELSE The(existing).processing_status
       IN  SwSet(s, IF InProgress(status)
                    THEN [c EXCEPT !.pc = "done", !.result = "skipped",
                                   !.existing = existing]
                    ELSE IF status = "failed"
                    THEN [c EXCEPT !.pc = "reset", !.existing = existing]
                    ELSE [c EXCEPT !.pc = "mark", !.existing = existing])
    /\ UNCHANGED <<store_prefix, store_url, q_url, q_prefix, now, cw, fn>>

\* a mutation of ResetCopy: the reset applied to the queued copy, the line
\* url_prefix = existing_prefix forgotten
ResetQueuedCopy(existing, url_prefix) == [url_prefix EXCEPT !.processing_status = "none"]

\* reset_failed_url_prefix(existing_prefix): the stored copy with status None,
\* which then becomes the job's url_prefix
ResetCopy(existing, url_prefix) == [existing EXCEPT !.processing_status = "none"]

\* reset_failed_url_prefix(existing_prefix); url_prefix = existing_prefix
SwReset(s) ==
    /\ sw[s].pc = "reset"
    /\ LET c   == sw[s]
           rec == ResetCopy(The(c.existing), c.url_prefix)
       IN  /\ store_prefix' = save(store_prefix, rec.prefix, rec)
           /\ SwSet(s, [c EXCEPT !.pc = "mark", !.url_prefix = rec,
                                 !.log = SwLog(s, "save_prefix", rec)])
    /\ UNCHANGED <<store_url, q_url, q_prefix, now, cw, fn>>

\* url_prefix.processing_status = "in_progress"; save(url_prefix)
SwMark(s) ==
    /\ sw[s].pc = "mark"
    /\ LET c   == sw[s]
           rec == [c.url_prefix EXCEPT !.processing_status = "in_progress"]
       IN  /\ store_prefix' = save(store_prefix, rec.prefix, rec)
           /\ SwSet(s, [c EXCEPT !.pc = "generate", !.url_prefix = rec,
                                 !.log = SwLog(s, "save_prefix", rec)])
    /\ UNCHANGED <<store_url, q_url, q_prefix, now, cw, fn>>

\* updated_url_prefix = await self.generate_parser_for_url_prefix(url_prefix)
SwGenerate(s) ==
    /\ sw[s].pc = "generate"
    /\ \E out \in GenerateOutcomes(sw[s].url_prefix) :
         LET c   == sw[s]
             log == SwLog(s, "generate", c.url_prefix)
         IN  SwSet(s, IF out = "ok"
                      THEN [c EXCEPT !.pc = "complete", !.log = log,
                                     !.url_prefix.parser_config = Some(ConfigFor(c.url_prefix))]
                      ELSE [c EXCEPT !.pc = "failed", !.raised = TRUE, !.log = log])
    /\ UNCHANGED <<store_prefix, store_url, q_url, q_prefix, now, cw, fn>>

\* updated_url_prefix.processing_status = "completed"; save(updated_url_prefix)
SwComplete(s) ==
    /\ sw[s].pc = "complete"
    /\ LET c   == sw[s]
           rec == [c.url_prefix EXCEPT !.processing_status = "completed"]
       IN  /\ store_prefix' = save(store_prefix, rec.prefix, rec)
           /\ SwSet(s, [c EXCEPT !.pc = "done", !.result = "success", !.url_prefix = rec,
                                 !.log = SwLog(s, "save_prefix", rec)])
    /\ UNCHANGED <<store_url, q_url, q_prefix, now, cw, fn>>

\* a mutation of FailureStatus: the except handler storing the status of the
\* try block's last line
FailureStatusCompleted == "completed"

\* a mutation of FailureStatus: the except handler leaving the status as it was
FailureStatusInProgress == "in_progress"

\* the status the except handler stores
FailureStatus == "failed"

\* except Exception: url_prefix.processing_status = "failed"; save(url_prefix)
SwFail(s) ==
    /\ sw[s].pc = "failed"
    /\ LET c   == sw[s]
           rec == [c.url_prefix EXCEPT !.processing_status = FailureStatus]
       IN  /\ store_prefix' = save(store_prefix, rec.prefix, rec)
           /\ SwSet(s, [c EXCEPT !.pc = "done", !.result = "error", !.url_prefix = rec,
                                 !.log = SwLog(s, "save_prefix", rec)])
    /\ UNCHANGED <<store_url, q_url, q_prefix, now, cw, fn>>

\* run: the result is logged and the loop takes its next iteration
SwFinish(s) ==
    /\ sw[s].pc = "done"
    /\ SwSet(s, SwIdle)
    /\ UNCHANGED <<store_prefix, store_url, q_url, q_prefix, now, cw, fn>>

SynthStep(s) ==
    \/ SwPop(s)
    \/ SwLoad(s)
    \/ SwReset(s)
    \/ SwMark(s)
    \/ SwGenerate(s)
    \/ SwComplete(s)
    \/ SwFail(s)
    \/ SwFinish(s)

(***************************************************************************)
(* Time and the system as a whole.                                         *)
(***************************************************************************)
TickStep == REQUEUE_DELAY

\* the wall clock moves on
Tick ==
    /\ now + TickStep <= MaxTime
    /\ now' = now + TickStep
    /\ UNCHANGED <<store_prefix, store_url, q_url, q_prefix, cw, sw, fn>>

EmptyStore == [k \in {} |-> {}]

FnIdle == [kind |-> "none"]

\* a fresh deployment: empty store, one page of the site submitted for crawling
InitFresh ==
    /\ store_prefix = EmptyStore
    /\ store_url = EmptyStore
    /\ q_url = <<URLQueueItem(PageUrl(FlakyPage), <<>>, 0, 0)>>
    /\ q_prefix = <<>>
    /\ now = 0

\* the rows a crawl of the plain pages 1..k has stored
RowsUpTo(k) ==
    [u \in {PageUrl(i) : i \in 1..k} |->
        URLRow(u, DocsPrefix, RawOf(u), "text:" \o RawOf(u))]

\* the docs prefix as stored once synthesis on its first sample has completed
DocsCompleted ==
    URLPrefix(DocsPrefix, <<SampleURL(PageUrl(1), RawOf(PageUrl(1)))>>,
              Some([prefix_name |-> DocsPrefix]), "completed")

\* the docs prefix as stored once a later queued copy of it, holding two
\* samples and no config, was taken up by the synthesis worker and failed
DocsFailed ==
    URLPrefix(DocsPrefix, <<SampleURL(PageUrl(1), RawOf(PageUrl(1))),
                            SampleURL(PageUrl(2), RawOf(PageUrl(2)))>>,
              None, "failed")

\* a long-running deployment one row short of the cap: the docs prefix has its
\* config, pages 1..19 are crawled and the next pages are queued
InitNearCap ==
    /\ store_prefix = save(EmptyStore, DocsPrefix, DocsCompleted)
    /\ store_url = RowsUpTo(URL_CAP - 1)
    /\ q_url = [i \in 1..(CapPages - (URL_CAP - 1)) |->
                  URLQueueItem(PageUrl(CapPages + 1 - i), DocsPrefix, MaxTime, 0)]
    /\ q_prefix = <<>>
    /\ now = MaxTime

\* a long-running deployment at the cap, the docs prefix with or without config
InitAtCap ==
    /\ \E pfx \in {DocsCompleted, DocsFailed} :
         store_prefix = save(EmptyStore, DocsPrefix, pfx)
    /\ store_url = RowsUpTo(URL_CAP)
    /\ q_url = <<URLQueueItem(PageUrl(URL_CAP + 1), DocsPrefix, MaxTime, 0)>>
    /\ q_prefix = <<>>
    /\ now = MaxTime

\* a deployment whose operator submits two crawled pages again: page 1, stored
\* with its text, and EmptyPage, stored with the empty text it extracts to
InitResubmitted ==
    /\ store_prefix = save(EmptyStore, DocsPrefix, DocsCompleted)
    /\ store_url = save(RowsUpTo(1), PageUrl(EmptyPage),
                        URLRow(PageUrl(EmptyPage), DocsPrefix,
                               RawOf(PageUrl(EmptyPage)), ""))
    /\ q_url = <<URLQueueItem(PageUrl(EmptyPage), <<>>, MaxTime, 0),
                 URLQueueItem(PageUrl(1), <<>>, MaxTime, 0)>>
    /\ q_prefix = <<>>
    /\ now = MaxTime

Init ==
    /\ InitFresh \/ InitNearCap \/ InitAtCap \/ InitResubmitted
    /\ cw = [w \in CrawlWorkers |-> CwIdle]
    /\ sw = [s \in SynthWorkers |-> SwIdle]
    /\ fn = FnIdle

Next ==
    \/ \E w \in CrawlWorkers : CrawlStep(w)
    \/ \E s \in SynthWorkers : SynthStep(s)
    \/ Tick

Spec == Init /\ [][Next]_vars


(***************************************************************************)
(* The work queues on their own (redis_queue.py): the redis keyspace of    *)
(* lists, a producer calling add_to_queue and one consumer per entity type *)
(* calling get_from_queue; the consumer of URL items may put the item it   *)
(* holds back (the `deferred` and `requeued` outcomes).  Every push gets a *)
(* serial number, a history variable that tells equal payloads apart.      *)
(***************************************************************************)
MaxPushes == 4

ModelClasses == {"URLQueueItem", "URLPrefix"}

\* model.__class__.__name__.lower()
class_lower(c) == IF c = "URLQueueItem" THEN "urlqueueitem" ELSE "urlprefix"

\* f"queue:{model.__class__.__name__.lower()}"
QueueNameOf(c) == "queue:" \o class_lower(c)

QueueNames == {QueueNameOf(c) : c \in ModelClasses}

QueuePayloads(c) ==
    IF c = "URLQueueItem"
    THEN {URLQueueItem(PageUrl(i), <<>>, 0, 0) : i \in 1..2}
    ELSE {URLPrefix(DocsPrefix, <<>>, None, "none")}

QEntry(c, d, n) == [cls |-> c, data |-> d, serial |-> n]

RECURSIVE Reverse(_)
Reverse(q) == IF q = <<>> THEN <<>> ELSE Reverse(Tail(q)) \o <<Head(q)>>

SerialsOf(q) == {q[i].serial : i \in 1..Len(q)}

InitQueue ==
    /\ InitFresh
    /\ cw = [w \in CrawlWorkers |-> CwIdle]
    /\ sw = [s \in SynthWorkers |-> SwIdle]
    /\ fn = [kind |-> "queue",
             lists |-> [n \in QueueNames |-> <<>>],
             hand |-> [c \in ModelClasses |-> None],
             pushed |-> [c \in ModelClasses |-> <<>>],
             popped |-> [c \in ModelClasses |-> <<>>],
             requeues |-> {},
             n |-> 0]

\* add_to_queue(model): R.lpush on the list named after the model's class
QAdd(c, d) ==
    /\ fn.n < MaxPushes
    /\ LET e == QEntry(c, d, fn.n + 1)
       IN  fn' = [fn EXCEPT !.lists[QueueNameOf(c)] = add_to_queue(@, e),
                            !.pushed[c] = Append(@, e),
                            !.n = @ + 1]
    /\ UNCHANGED <<store_prefix, store_url, q_url, q_prefix, now, cw, sw>>

\* get_from_queue(model_class): R.rpop on the list named after the class
QGet(c) ==
    /\ fn.hand[c] = None
    /\ fn.lists[QueueNameOf(c)] # <<>>
    /\ LET q == fn.lists[QueueNameOf(c)]
       IN  fn' = [fn EXCEPT !.lists[QueueNameOf(c)] = QueueRest(q),
                            !.hand[c] = Some(QueueFront(q)),
                            !.popped[c] = Append(@, QueueFront(q))]
    /\ UNCHANGED <<store_prefix, store_url, q_url, q_prefix, now, cw, sw>>

\* the consumer puts the item it holds back: add_to_queue(queue_item)
QReadd(c) ==
    /\ c = "URLQueueItem"
    /\ fn.hand[c] # None
    /\ fn.n < MaxPushes
    /\ LET e == QEntry(c, The(fn.hand[c]).data, fn.n + 1)
           ahead == SerialsOf(fn.lists[QueueNameOf(c)])
       IN  fn' = [fn EXCEPT !.lists[QueueNameOf(c)] = add_to_queue(@, e),
                            !.pushed[c] = Append(@, e),
                            !.hand[c] = None,
                            !.requeues = @ \cup {[serial |-> e.serial, ahead |-> ahead]},
                            !.n = @ + 1]
    /\ UNCHANGED <<store_prefix, store_url, q_url, q_prefix, now, cw, sw>>

\* the consumer is done with the item it holds
QDone(c) ==
    /\ fn.hand[c] # None
    /\ fn' = [fn EXCEPT !.hand[c] = None]
    /\ UNCHANGED <<store_prefix, store_url, q_url, q_prefix, now, cw, sw>>

NextQueue ==
    \/ \E c \in ModelClasses : \E d \in QueuePayloads(c) : QAdd(c, d)
    \/ \E c \in ModelClasses : QGet(c)
    \/ \E c \in ModelClasses : QReadd(c)
    \/ \E c \in ModelClasses : QDone(c)

SpecQueue == InitQueue /\ [][NextQueue]_vars


(***************************************************************************)
(* Merging parser configs (data_models.py).  The four selector fields are  *)
(* Python lists; `+` builds each field as list(set(x) | set(y)), whose     *)
(* order is the iteration order of the set, which the program does not     *)
(* control (string hashes are salted per process and colliding entries are *)
(* placed by insertion history): any order of the union's elements is a    *)
(* possible outcome.  Equality of two configs is the field-wise equality   *)
(* pydantic derives, so two selector fields are equal when they are equal  *)
(* as lists.                                                               *)
(***************************************************************************)
MaxSelectors == 2

Selectors == {"div", "p"}

\* the lists of at most MaxSelectors selectors, repeats and both orders included
SelectorLists == UNION {[1..k -> Selectors] : k \in 0..MaxSelectors}

ParserParameters(root, keep, drop, unwrap) ==
    [root |-> root, keep |-> keep, drop |-> drop, unwrap |-> unwrap]

\* id is derived from prefix_name by the model validator
ParserConfig(parameters, prefix_name) ==
    [parameters |-> parameters, prefix_name |-> prefix_name, id |-> prefix_name]

\* set(l)
set(l) == {l[i] : i \in 1..Len(l)}

\* the outcomes of list(S)
list(S) == {l \in [1..Cardinality(S) -> S] : set(l) = S}

\* the outcomes of ParserParameters.__add__
params_add(x, y) ==
    {ParserParameters(r, k, d, u) :
        r \in list(set(x.root) \cup set(y.root)),
        k \in list(set(x.keep) \cup set(y.keep)),
        d \in list(set(x.drop) \cup set(y.drop)),
        u \in list(set(x.unwrap) \cup set(y.unwrap))}

\* the outcomes of ParserConfig.__add__
config_add(x, y) ==
    {[parameters |-> ps, prefix_name |-> x.prefix_name, id |-> x.id] :
        ps \in params_add(x.parameters, y.parameters)}

\* the configs merged here: all of one prefix name
MergeOperands ==
    {ParserConfig(ParserParameters(r, k, <<"nav">>, <<>>), "a.com/docs") :
        r \in SelectorLists, k \in {<<>>, <<"span">>}}

MergeCell(law, a, b, c, lhs, rhs) ==
    [kind |-> "merge", law |-> law, a |-> a, b |-> b, c |-> c,
     lhs |-> lhs, rhs |-> rhs]

InitMerge ==
    /\ InitFresh
    /\ cw = [w \in CrawlWorkers |-> CwIdle]
    /\ sw = [s \in SynthWorkers |-> SwIdle]
    /\ \E a \in MergeOperands, b \in MergeOperands, c \in MergeOperands :
         fn = MergeCell("none", a, b, c, None, None)

\* (a + b) + c and a + (b + c)
MergeAssoc ==
    /\ fn.kind = "merge" /\ fn.law = "none"
    /\ \E ab \in config_add(fn.a, fn.b), bc \in config_add(fn.b, fn.c) :
         \E l \in config_add(ab, fn.c), r \in config_add(fn.a, bc) :
            fn' = [fn EXCEPT !.law = "assoc", !.lhs = Some(l), !.rhs = Some(r)]
    /\ UNCHANGED <<store_prefix, store_url, q_url, q_prefix, now, cw, sw>>

\* a + b and b + a
MergeCommute ==
    /\ fn.kind = "merge" /\ fn.law = "none"
    /\ \E l \in config_add(fn.a, fn.b), r \in config_add(fn.b, fn.a) :
         fn' = [fn EXCEPT !.law = "commute", !.lhs = Some(l), !.rhs = Some(r)]
    /\ UNCHANGED <<store_prefix, store_url, q_url, q_prefix, now, cw, sw>>

\* a + a and a
MergeIdem ==
    /\ fn.kind = "merge" /\ fn.law = "none"
    /\ \E l \in config_add(fn.a, fn.a) :
         fn' = [fn EXCEPT !.law = "idem", !.lhs = Some(l), !.rhs = Some(fn.a)]
    /\ UNCHANGED <<store_prefix, store_url, q_url, q_prefix, now, cw, sw>>

NextMerge == MergeAssoc \/ MergeCommute \/ MergeIdem

SpecMerge == InitMerge /\ [][NextMerge]_vars


(***************************************************************************)
(* Python strings character by character: a str is the sequence of its     *)
(* one-character strings, positions counted from 1.  The alphabet is the   *)
(* ASCII letters, digits and the punctuation listed in CodePoints.         *)
(***************************************************************************)
UpperCase ==
    <<"A", "B", "C", "D", "E", "F", "G", "H", "I", "J", "K", "L", "M",
      "N", "O", "P", "Q", "R", "S", "T", "U", "V", "W", "X", "Y", "Z">>

LowerCase ==
    <<"a", "b", "c", "d", "e", "f", "g", "h", "i", "j", "k", "l", "m",
      "n", "o", "p", "q", "r", "s", "t", "u", "v", "w", "x", "y", "z">>

Digits == <<"0", "1", "2", "3", "4", "5", "6", "7", "8", "9">>

\* the alphabet in code point order
CodePoints ==
    <<" ", "#", "%", "&", "+", "-", ".", "/">> \o Digits
        \o <<":", ";", "=", "?", "@">> \o UpperCase \o <<"_">> \o LowerCase
        \o <<"~">>

\* ord(c), up to a shift
ord(c) == CHOOSE i \in 1..Len(CodePoints) : CodePoints[i] = c

Letters == set(UpperCase) \cup set(LowerCase)

MinOf(S) == CHOOSE x \in S : \A y \in S : x <= y

MaxOf(S) == CHOOSE x \in S : \A y \in S : x >= y

\* s[a-1:b], the characters at positions a..b that exist
Slice(s, a, b) ==
    LET lo == IF a < 1 THEN 1 ELSE a
        hi == IF b > Len(s) THEN Len(s) ELSE b
    IN  IF lo > hi THEN <<>> ELSE SubSeq(s, lo, hi)

\* s.find(sub, start): the first position from start on, 0 when there is none
str_find(s, sub, start) ==
    LET at == {i \in start..(Len(s) - Len(sub) + 1) :
                  SubSeq(s, i, i + Len(sub) - 1) = sub}
    IN  IF at = {} THEN 0 ELSE MinOf(at)

\* s.rfind(sub)
str_rfind(s, sub) ==
    LET at == {i \in 1..(Len(s) - Len(sub) + 1) :
                  SubSeq(s, i, i + Len(sub) - 1) = sub}
    IN  IF at = {} THEN 0 ELSE MaxOf(at)

\* sub in s
str_contains(s, sub) == str_find(s, sub, 1) > 0

str_startswith(s, p) == Len(s) >= Len(p) /\ SubSeq(s, 1, Len(p)) = p

str_endswith(s, p) ==
    Len(s) >= Len(p) /\ SubSeq(s, Len(s) - Len(p) + 1, Len(s)) = p

RECURSIVE str_replace(_, _, _)
\* s.replace(old, new)
str_replace(s, old, new) ==
    LET i == str_find(s, old, 1)
    IN  IF i = 0 THEN s
        ELSE Slice(s, 1, i - 1) \o new
                \o str_replace(Slice(s, i + Len(old), Len(s)), old, new)

RECURSIVE str_split(_, _)
\* s.split(sep)
str_split(s, sep) ==
    LET i == str_find(s, sep, 1)
    IN  IF i = 0 THEN <<s>>
        ELSE <<Slice(s, 1, i - 1)>>
                \o str_split(Slice(s, i + Len(sep), Len(s)), sep)

\* s.split(sep, 1) as [head, tail]; tail is None when sep does not occur
str_split1(s, sep) ==
    LET i == str_find(s, sep, 1)
    IN  IF i = 0 THEN [head |-> s, tail |-> None]
        ELSE [head |-> Slice(s, 1, i - 1),
              tail |-> Some(Slice(s, i + Len(sep), Len(s)))]

RECURSIVE str_join(_, _)
\* sep.join(parts)
str_join(parts, sep) ==
    IF parts = <<>> THEN <<>>
    ELSE IF Len(parts) = 1 THEN parts[1]
    ELSE parts[1] \o sep \o str_join(Tail(parts), sep)

lower_char(c) ==
    IF \E i \in 1..Len(UpperCase) : UpperCase[i] = c
    THEN LowerCase[CHOOSE i \in 1..Len(UpperCase) : UpperCase[i] = c]
    ELSE c

\* s.lower()
str_lower(s) == [i \in 1..Len(s) |-> lower_char(s[i])]

\* the whitespace s.strip() removes
Whitespace == {" ", "\t", "\n"}

RECURSIVE str_lstrip(_)
str_lstrip(s) ==
    IF s # <<>> /\ Head(s) \in Whitespace THEN str_lstrip(Tail(s)) ELSE s

RECURSIVE str_rstrip(_)
str_rstrip(s) ==
    IF s # <<>> /\ s[Len(s)] \in Whitespace
    THEN str_rstrip(Slice(s, 1, Len(s) - 1))
    ELSE s

\* s.strip()
str_strip(s) == str_rstrip(str_lstrip(s))

RECURSIVE str_less(_, _)
\* a < b on str
str_less(a, b) ==
    IF b = <<>> THEN FALSE
    ELSE IF a = <<>> THEN TRUE
    ELSE IF Head(a) # Head(b) THEN ord(Head(a)) < ord(Head(b))
    ELSE str_less(Tail(a), Tail(b))

(***************************************************************************)
(* urllib.parse as the program uses it.                                    *)
(***************************************************************************)
scheme_chars == Letters \cup set(Digits) \cup {"+", "-", "."}

uses_params == {<<>>, <<"h", "t", "t", "p">>, <<"h", "t", "t", "p", "s">>, <<"f", "t", "p">>}

uses_relative == {<<>>, <<"h", "t", "t", "p">>, <<"h", "t", "t", "p", "s">>, <<"f", "t", "p">>}

uses_netloc == {<<>>, <<"h", "t", "t", "p">>, <<"h", "t", "t", "p", "s">>, <<"f", "t", "p">>}

\* _splitparams
splitparams(url) ==
    LET slash == str_rfind(url, <<"/">>)
        i == str_find(url, <<";">>, IF slash > 0 THEN slash ELSE 1)
    IN  IF i = 0 THEN [path |-> url, params |-> <<>>]
        ELSE [path |-> Slice(url, 1, i - 1),
              params |-> Slice(url, i + 1, Len(url))]

\* a scheme ends at the first ':' when it starts with a letter and holds only
\* scheme characters; it is lowercased
has_scheme(url, i) ==
    /\ i > 1
    /\ url[1] \in Letters
    /\ \A k \in 1..(i - 1) : url[k] \in scheme_chars

split_scheme(url, i, default_scheme) ==
    IF has_scheme(url, i)
    THEN [scheme |-> str_lower(Slice(url, 1, i - 1)),
          rest |-> Slice(url, i + 1, Len(url))]
    ELSE [scheme |-> default_scheme, rest |-> url]

\* _splitnetloc(url, 2): the netloc ends before the first of '/', '?', '#'
netloc_end(url) ==
    MinOf({k \in 3..Len(url) : url[k] \in {"/", "?", "#"}} \cup {Len(url) + 1})

split_netloc(url) ==
    IF Slice(url, 1, 2) = <<"/", "/">>
    THEN [netloc |-> Slice(url, 3, netloc_end(url) - 1),
          rest |-> Slice(url, netloc_end(url), Len(url))]
    ELSE [netloc |-> <<>>, rest |-> url]

path_params(scheme, url) ==
    IF scheme \in uses_params /\ str_contains(url, <<";">>)
    THEN splitparams(url)
    ELSE [path |-> url, params |-> <<>>]

tail_or_empty(halves) == IF halves.tail = None THEN <<>> ELSE The(halves.tail)

ParseResult(scheme, netloc, p, query, fragment) ==
    [scheme |-> scheme, netloc |-> netloc, path |-> p.path,
     params |-> p.params, query |-> query, fragment |-> fragment]

urlparse_query(scheme, netloc, q, fragment) ==
    ParseResult(scheme, netloc, path_params(scheme, q.head), tail_or_empty(q),
                fragment)

urlparse_fragment(scheme, netloc, f) ==
    urlparse_query(scheme, netloc, str_split1(f.head, <<"?">>), tail_or_empty(f))

urlparse_netloc(scheme, n) ==
    urlparse_fragment(scheme, n.netloc, str_split1(n.rest, <<"#">>))

urlparse_scheme(s) == urlparse_netloc(s.scheme, split_netloc(s.rest))

\* urlparse(url, scheme): urlsplit (scheme, netloc, fragment, query, in this
\* order), then the params of the last path segment
urlparse(url, default_scheme) ==
    urlparse_scheme(split_scheme(url, str_find(url, <<":">>, 1), default_scheme))

with_params(path, params) ==
    IF params # <<>> THEN path \o <<";">> \o params ELSE path

with_netloc(scheme, netloc, url) ==
    IF netloc # <<>>
         \/ (scheme # <<>> /\ scheme \in uses_netloc /\ Slice(url, 1, 2) # <<"/", "/">>)
    THEN <<"/", "/">> \o netloc
            \o (IF url # <<>> /\ Head(url) # "/" THEN <<"/">> ELSE <<>>) \o url
    ELSE url

with_scheme(scheme, url) ==
    IF scheme # <<>> THEN scheme \o <<":">> \o url ELSE url

with_query(url, query) ==
    IF query # <<>> THEN url \o <<"?">> \o query ELSE url

with_fragment(url, fragment) ==
    IF fragment # <<>> THEN url \o <<"#">> \o fragment ELSE url

\* urlunparse
urlunparse(scheme, netloc, path, params, query, fragment) ==
    with_fragment(
        with_query(
            with_scheme(scheme, with_netloc(scheme, netloc, with_params(path, params))),
            query),
        fragment)

\* the percent escapes of the alphabet's characters
Escapes ==
    <<[ch |-> " ", hex |-> <<"2", "0">>], [ch |-> "#", hex |-> <<"2", "3">>],
      [ch |-> "%", hex |-> <<"2", "5">>], [ch |-> "&", hex |-> <<"2", "6">>],
      [ch |-> "+", hex |-> <<"2", "B">>], [ch |-> "/", hex |-> <<"2", "F">>],
      [ch |-> ":", hex |-> <<"3", "A">>], [ch |-> ";", hex |-> <<"3", "B">>],
      [ch |-> "=", hex |-> <<"3", "D">>], [ch |-> "?", hex |-> <<"3", "F">>],
      [ch |-> "@", hex |-> <<"4", "0">>]>>

EscapeOf(hex) ==
    {Escapes[i].ch : i \in {j \in 1..Len(Escapes) :
                              str_lower(Escapes[j].hex) = str_lower(hex)}}

RECURSIVE unquote(_)
\* unquote, for strings whose %XX sequences are escapes of the alphabet
unquote(s) ==
    IF s = <<>> THEN <<>>
    ELSE IF Head(s) = "%" /\ Len(s) >= 3 /\ EscapeOf(SubSeq(s, 2, 3)) # {}
    THEN <<The(EscapeOf(SubSeq(s, 2, 3)))>> \o unquote(Slice(s, 4, Len(s)))
    ELSE <<Head(s)>> \o unquote(Tail(s))

always_safe == Letters \cup set(Digits) \cup {"_", ".", "-", "~"}

quote_char(c) ==
    IF c \in always_safe THEN <<c>>
    ELSE IF c = " " THEN <<"+">>
    ELSE <<"%">> \o Escapes[CHOOSE i \in 1..Len(Escapes) : Escapes[i].ch = c].hex

RECURSIVE quote_plus(_)
quote_plus(s) ==
    IF s = <<>> THEN <<>> ELSE quote_char(Head(s)) \o quote_plus(Tail(s))

RECURSIVE parse_pairs(_)
\* parse_qsl over the '&'-separated fields: fields without '=' and fields
\* with a blank value are skipped (keep_blank_values=False)
parse_pairs(fields) ==
    IF fields = <<>> THEN <<>>
    ELSE LET nv == str_split1(Head(fields), <<"=">>)
         IN  IF nv.tail = None \/ The(nv.tail) = <<>>
             THEN parse_pairs(Tail(fields))
             ELSE <<[key |-> unquote(str_replace(nv.head, <<"+">>, <<" ">>)),
                     value |-> unquote(str_replace(The(nv.tail), <<"+">>, <<" ">>))]>>
                     \o parse_pairs(Tail(fields))

\* parse_qs(query), flattened to its (key, value) pairs; the program sorts
\* the pairs it keeps, so the grouping by key leaves no trace
parse_qs(query) == parse_pairs(str_split(query, <<"&">>))

\* urlencode of a list of (key, value) pairs
urlencode(pairs) ==
    str_join([i \in 1..Len(pairs) |->
                 quote_plus(pairs[i].key) \o <<"=">> \o quote_plus(pairs[i].value)],
             <<"&">>)

(***************************************************************************)
(* ParsingWorker.normalize_url.  No string over the alphabet makes         *)
(* urlparse raise (that takes a bracket in the host), so the except branch *)
(* that returns the URL unchanged has no part here.                        *)
(***************************************************************************)
tracking_params ==
    {<<"u", "t", "m", "_", "s", "o", "u", "r", "c", "e">>, <<"u", "t", "m", "_", "m", "e", "d",
            "i", "u", "m">>, <<"u", "t", "m", "_", "c", "a", "m", "p", "a", "i", "g", "n">>,
            <<"u", "t", "m", "_", "t", "e", "r", "m">>,
     <<"u", "t", "m", "_", "c", "o", "n", "t", "e", "n", "t">>, <<"f", "b", "c", "l", "i",
             "d">>, <<"g", "c", "l", "i", "d">>, <<"m", "s", "c", "l", "k", "i", "d">>, <<"r",
             "e", "f">>,
     <<"s", "o", "u", "r", "c", "e">>, <<"c", "a", "m", "p", "a", "i", "g", "n">>, <<"s", "e",
             "s", "s", "i", "o", "n", "i", "d">>, <<"s", "i", "d">>, <<"t", "o", "k", "e",
             "n">>,
     <<"a", "u", "t", "h">>, <<"k", "e", "y">>}

\* (k1, v1) < (k2, v2) on tuples of str
pair_less(x, y) ==
    \/ str_less(x.key, y.key)
    \/ x.key = y.key /\ str_less(x.value, y.value)

RECURSIVE sort_insert(_, _)
sort_insert(x, sorted) ==
    IF sorted = <<>> THEN <<x>>
    ELSE IF pair_less(x, Head(sorted)) THEN <<x>> \o sorted
    ELSE <<Head(sorted)>> \o sort_insert(x, Tail(sorted))

RECURSIVE sort_pairs(_)
\* query_params.sort()
sort_pairs(pairs) ==
    IF pairs = <<>> THEN <<>>
    ELSE sort_insert(Head(pairs), sort_pairs(Tail(pairs)))

\* the pairs that are neither tracking parameters nor blank
kept_params(pairs) ==
    SelectSeq(pairs, LAMBDA kv : /\ str_lower(kv.key) \notin tracking_params
                                 /\ str_strip(kv.value) # <<>>)

strip_www(netloc) ==
    IF str_startswith(netloc, <<"w", "w", "w", ".">>) THEN Slice(netloc, 5, Len(netloc))
    ELSE netloc

strip_default_port(scheme, netloc) ==
    IF scheme = <<"h", "t", "t", "p", "s">> /\ str_contains(netloc, <<":", "4", "4", "3">>)
    THEN str_replace(netloc, <<":", "4", "4", "3">>, <<>>)
    ELSE IF scheme = <<"h", "t", "t", "p">> /\ str_contains(netloc, <<":", "8", "0">>)
    THEN str_replace(netloc, <<":", "8", "0">>, <<>>)
    ELSE netloc

normalize_netloc(scheme, netloc) ==
    strip_default_port(scheme, strip_www(str_lower(netloc)))

normalize_path(path) ==
    IF path # <<"/">> /\ str_endswith(path, <<"/">>)
    THEN Slice(path, 1, Len(path) - 1)
    ELSE path

normalize_query(query) ==
    IF query # <<>> THEN sort_pairs(kept_params(parse_qs(query))) ELSE <<>>

query_suffix(query_params) ==
    IF query_params # <<>> THEN <<"?">> \o urlencode(query_params) ELSE <<>>

normalize_parsed(scheme, parsed) ==
    scheme \o <<":", "/", "/">> \o normalize_netloc(scheme, parsed.netloc)
        \o normalize_path(parsed.path)
        \o query_suffix(normalize_query(parsed.query))

normalize_scheme(parsed) == normalize_parsed(str_lower(parsed.scheme), parsed)

normalize_url(url) == normalize_scheme(urlparse(url, <<>>))

(***************************************************************************)
(* normalize_url applied twice to URLs put together from a scheme, a host  *)
(* with leading `www.` labels, a port, a path with trailing slashes, a     *)
(* query string and a fragment.                                            *)
(***************************************************************************)
MaxWww == 2
MaxSlashes == 2

RECURSIVE Rep(_, _)
\* piece * k
Rep(piece, k) == IF k = 0 THEN <<>> ELSE piece \o Rep(piece, k - 1)

NormSchemes == {<<"h", "t", "t", "p">>, <<"H", "T", "T", "P">>, <<"h", "t", "t", "p", "s">>}

NormHosts == {<<"a", ".", "c", "o", "m">>, <<"A", ".", "c", "o", "m">>}

NormPorts == {<<>>, <<":", "8", "0">>, <<":", "4", "4", "3">>, <<":", "8", "0", "8", "0">>}

NormPaths == {<<>>, <<"/", "d", "o", "c", "s">>, <<"/", "d", "o", "c", "s", ";", "v">>}

NormQueries ==
    {<<>>, <<"?", "b", "=", "1", "&", "a", "=", "2">>, <<"?", "r", "e", "f", "=", "x", "&",
            "a", "=", "1">>, <<"?", "a", "=", "+">>, <<"?", "a", "=", "b", "=", "c", "&", "a",
            "=", "1">>,
     <<"?", "q", "=", "a", "+", "b", "&", "U", "T", "M", "_", "s", "o", "u", "r", "c", "e",
             "=", "x", "&", "n", "=">>}

NormFragments == {<<>>, <<"#", "t", "o", "p">>}

NormUrls ==
    {s \o <<":", "/", "/">> \o Rep(<<"w", "w", "w", ".">>, w) \o h \o p \o d \o Rep(<<"/">>,
            n) \o q \o f :
        s \in NormSchemes, w \in 0..MaxWww, h \in NormHosts, p \in NormPorts,
        d \in NormPaths, n \in 0..MaxSlashes, q \in NormQueries,
        f \in NormFragments}

InitNorm ==
    /\ InitFresh
    /\ cw = [w \in CrawlWorkers |-> CwIdle]
    /\ sw = [s \in SynthWorkers |-> SwIdle]
    /\ \E u \in NormUrls : fn = [kind |-> "norm", url |-> u, once |-> None, twice |-> None]

\* normalize_url(u)
NormFirst ==
    /\ fn.kind = "norm" /\ fn.once = None
    /\ fn' = [fn EXCEPT !.once = Some(normalize_url(fn.url))]
    /\ UNCHANGED <<store_prefix, store_url, q_url, q_prefix, now, cw, sw>>

\* normalize_url(normalize_url(u))
NormSecond ==
    /\ fn.kind = "norm" /\ fn.once # None /\ fn.twice = None
    /\ fn' = [fn EXCEPT !.twice = Some(normalize_url(The(fn.once)))]
    /\ UNCHANGED <<store_prefix, store_url, q_url, q_prefix, now, cw, sw>>

NextNorm == NormFirst \/ NormSecond

SpecNorm == InitNorm /\ [][NextNorm]_vars


(***************************************************************************)
(* ParsingWorker.extract_links_from_html.  A page is the list of the href  *)
(* attributes of its anchors in document order (what find_all('a',         *)
(* href=True) yields); urljoin is urllib.parse.urljoin.                    *)
(***************************************************************************)
RECURSIVE resolve_segments(_, _)
\* the loop over the segments: '..' pops (when there is something to pop),
\* '.' is skipped, anything else is appended
resolve_segments(segments, resolved) ==
    IF segments = <<>> THEN resolved
    ELSE IF Head(segments) = <<".", ".">>
    THEN resolve_segments(Tail(segments), Slice(resolved, 1, Len(resolved) - 1))
    ELSE IF Head(segments) = <<".">>
    THEN resolve_segments(Tail(segments), resolved)
    ELSE resolve_segments(Tail(segments), Append(resolved, Head(segments)))

\* segments[1:-1] = filter(None, segments[1:-1])
drop_inner_empty(segments) ==
    IF Len(segments) <= 2 THEN segments
    ELSE <<Head(segments)>>
            \o SelectSeq(SubSeq(segments, 2, Len(segments) - 1),
                         LAMBDA seg : seg # <<>>)
            \o <<segments[Len(segments)]>>

\* the base path without its last segment, unless that is empty
base_parts(parts) ==
    IF parts[Len(parts)] # <<>> THEN SubSeq(parts, 1, Len(parts) - 1) ELSE parts

path_segments(bpath, path) ==
    IF Slice(path, 1, 1) = <<"/">>
    THEN str_split(path, <<"/">>)
    ELSE drop_inner_empty(base_parts(str_split(bpath, <<"/">>))
                             \o str_split(path, <<"/">>))

resolved_path(segments) ==
    IF segments[Len(segments)] \in {<<".">>, <<".", ".">>}
    THEN Append(resolve_segments(segments, <<>>), <<>>)
    ELSE resolve_segments(segments, <<>>)

\* '/'.join(resolved_path) or '/'
or_root(joined) == IF joined = <<>> THEN <<"/">> ELSE joined

urljoin_path(bpath, path) ==
    or_root(str_join(resolved_path(path_segments(bpath, path)), <<"/">>))

urljoin_relative(b, u, netloc) ==
    IF u.path = <<>> /\ u.params = <<>>
    THEN urlunparse(u.scheme, netloc, b.path, b.params,
                    IF u.query = <<>> THEN b.query ELSE u.query, u.fragment)
    ELSE urlunparse(u.scheme, netloc, urljoin_path(b.path, u.path), u.params,
                    u.query, u.fragment)

urljoin_parsed(url, b, u) ==
    IF u.scheme # b.scheme \/ u.scheme \notin uses_relative THEN url
    ELSE IF u.scheme \in uses_netloc /\ u.netloc # <<>>
    THEN urlunparse(u.scheme, u.netloc, u.path, u.params, u.query, u.fragment)
    ELSE urljoin_relative(b, u, IF u.scheme \in uses_netloc THEN b.netloc
                                ELSE u.netloc)

urljoin_base(url, b) == urljoin_parsed(url, b, urlparse(url, b.scheme))

urljoin(base, url) ==
    IF base = <<>> THEN url
    ELSE IF url = <<>> THEN base
    ELSE urljoin_base(url, urlparse(base, <<>>))

\* absolute_url.split('#')[0] when '#' is in it
strip_fragment(url) ==
    IF str_contains(url, <<"#">>) THEN str_split(url, <<"#">>)[1] ELSE url

\* one anchor: resolve against the base, cut the fragment, normalize
link_of(href, base_url) == normalize_url(strip_fragment(urljoin(base_url, href)))

\* the three tests a normalized link has to pass to be appended
keep_link(normalized_url, base_url, target_prefix) ==
    /\ urlparse(normalized_url, <<>>).scheme \in {<<"h", "t", "t", "p">>, <<"h", "t", "t", "p",
            "s">>}
    /\ normalized_url # normalize_url(base_url)
    /\ str_startswith(normalized_url, target_prefix)

\* "Remove duplicates while preserving order"
unique_links(links) == Dedup(links, {})

MaxHrefs == 3

Hrefs ==
    {<<>>, <<"p", "2">>, <<"H", "T", "T", "P", ":", "/", "/", "w", "w", "w", ".", "a", ".",
            "c", "o", "m", "/", "d", "o", "c", "s", "/", "p", "2", "/", "#", "s">>, <<"#", "t",
            "o", "p">>,
     <<".", ".", "/", "d", "o", "c", "s", "/", "p", "1", "?", "r", "e", "f", "=", "x">>, <<"h",
             "t", "t", "p", "s", ":", "/", "/", "a", ".", "c", "o", "m", "/", "d", "o", "c",
             "s", "/", "p", "2">>, <<"m", "a", "i", "l", "t", "o", ":", "m", "@", "a", ".",
             "c", "o", "m">>,
     <<"/", "d", "o", "c", "s", "-", "o", "l", "d", "/", "p", "9">>, <<"/", "/", "w", "w", "w",
             ".", "w", "w", "w", ".", "a", ".", "c", "o", "m", "/", "d", "o", "c", "s", "/",
             "p", "3">>}

BaseUrls == {<<"h", "t", "t", "p", ":", "/", "/", "a", ".", "c", "o", "m", "/", "d", "o", "c",
        "s", "/", "p", "1">>, <<"h", "t", "t", "p", ":", "/", "/", "w", "w", "w", ".", "a",
        ".", "c", "o", "m", "/", "d", "o", "c", "s", "/">>}

TargetPrefixes ==
    {<<"h", "t", "t", "p", ":", "/", "/", "a", ".", "c", "o", "m", "/", "d", "o", "c", "s">>,
            <<"h", "t", "t", "p", ":", "/", "/", "w", "w", "w", ".", "a", ".", "c", "o", "m",
            "/", "d", "o", "c", "s">>, <<"h", "t", "t", "p", "s", ":", "/", "/", "a", ".", "c",
            "o", "m">>}

\* before the loop over the anchors: hrefs are the anchors gone through so
\* far, seen their normalized links, links the list the loop appends to
InitLinks ==
    /\ InitFresh
    /\ cw = [w \in CrawlWorkers |-> CwIdle]
    /\ sw = [s \in SynthWorkers |-> SwIdle]
    /\ \E b \in BaseUrls, t \in TargetPrefixes :
         fn = [kind |-> "links", hrefs |-> <<>>, base_url |-> b,
               target_prefix |-> t, seen |-> <<>>, links |-> <<>>, out |-> None]

\* one round of the loop, for an anchor without href text: skipped
LinksSkip ==
    /\ fn.kind = "links" /\ fn.out = None
    /\ Len(fn.hrefs) < MaxHrefs
    /\ fn' = [fn EXCEPT !.hrefs = Append(@, <<>>)]
    /\ UNCHANGED <<store_prefix, store_url, q_url, q_prefix, now, cw, sw>>

\* one round of the loop, for the next anchor of the page
LinksAnchor(href) ==
    /\ fn.kind = "links" /\ fn.out = None
    /\ Len(fn.hrefs) < MaxHrefs
    /\ href # <<>>
    /\ LET normalized_url == link_of(href, fn.base_url)
       IN  fn' = [fn EXCEPT
                    !.hrefs = Append(@, href),
                    !.seen = Append(@, normalized_url),
                    !.links = IF keep_link(normalized_url, fn.base_url,
                                           fn.target_prefix)
                              THEN Append(@, normalized_url) ELSE @]
    /\ UNCHANGED <<store_prefix, store_url, q_url, q_prefix, now, cw, sw>>

\* after the last anchor: duplicates are removed and the list is returned
LinksReturn ==
    /\ fn.kind = "links" /\ fn.out = None
    /\ fn' = [fn EXCEPT !.out = Some(unique_links(fn.links))]
    /\ UNCHANGED <<store_prefix, store_url, q_url, q_prefix, now, cw, sw>>

NextLinks ==
    \/ LinksSkip
    \/ \E href \in Hrefs : LinksAnchor(href)
    \/ LinksReturn

SpecLinks == InitLinks /\ [][NextLinks]_vars


(***************************************************************************)
(* The extraction engine (parser.py, clean_html.py).  A parsed document is *)
(* the list of its nodes in document order, each with the position of its  *)
(* parent (0 for the BeautifulSoup object itself), and the set of nodes    *)
(* still in the tree; text nodes carry the name "#text".  The documents    *)
(* here carry no attributes and the selectors are tag names.  Whether      *)
(* get_text counts the text inside a script element depends on the bs4     *)
(* release, so it is an input (script_text).                               *)
(***************************************************************************)
DomNode(name, parent, text) == [name |-> name, parent |-> parent, text |-> text]

Soup(nodes, alive) == [nodes |-> nodes, alive |-> alive]

RECURSIVE parents(_, _)
\* el.parents, without the BeautifulSoup object
parents(soup, i) ==
    IF soup.nodes[i].parent = 0 THEN {}
    ELSE {soup.nodes[i].parent} \cup parents(soup, soup.nodes[i].parent)

\* the nodes below any element of els
descendants(soup, els) ==
    {j \in soup.alive : parents(soup, j) \cap els # {}}

\* soup.select(sel) for each sel of selectors, together
select_all(soup, selectors) ==
    {i \in soup.alive : \E k \in 1..Len(selectors) : soup.nodes[i].name = selectors[k]}

\* el.decompose() for each el of els
decompose(soup, els) ==
    Soup(soup.nodes, soup.alive \ (els \cup descendants(soup, els)))

\* the elements outside keep_set that are not html, head or body
pruned(soup, keep_set) ==
    {i \in soup.alive : /\ soup.nodes[i].name \notin {"#text", "html", "head", "body"}
                        /\ i \notin keep_set}

\* the nodes kept for a non-empty list of matches: the matches, their
\* descendants and their ancestors
keep_set_of(soup, matches) ==
    matches \cup descendants(soup, matches)
        \cup UNION {parents(soup, i) : i \in matches}

prune_nothing(soup, matches) == soup

\* root restriction and keep-only pruning: nothing happens without a match
prune_to(soup, matches) ==
    IF matches = {} THEN soup
    ELSE decompose(soup, pruned(soup, keep_set_of(soup, matches)))

\* no restriction to the root matches
trim_root_none(soup, parameters) == soup

trim_root(soup, parameters) ==
    prune_to(soup, select_all(soup, parameters.root))

\* the matches go, their subtrees stay
trim_drop_shallow(soup, parameters) ==
    Soup(soup.nodes, soup.alive \ select_all(soup, parameters.drop))

trim_drop(soup, parameters) ==
    decompose(soup, select_all(soup, parameters.drop))

RECURSIVE parent_outside(_, _, _)
\* the nearest ancestor that is not unwrapped
parent_outside(soup, i, els) ==
    IF soup.nodes[i].parent \in els
    THEN parent_outside(soup, soup.nodes[i].parent, els)
    ELSE soup.nodes[i].parent

\* el.unwrap() for each el of els: the tag goes, its children take its place
unwrap(soup, els) ==
    Soup([i \in 1..Len(soup.nodes) |->
             [soup.nodes[i] EXCEPT !.parent = parent_outside(soup, i, els)]],
         soup.alive \ els)

trim_unwrap(soup, parameters) ==
    unwrap(soup, select_all(soup, parameters.unwrap))

trim_keep(soup, parameters) ==
    prune_to(soup, select_all(soup, parameters.keep))

\* Parser._trim_soup
trim_soup(soup, parameters) ==
    trim_keep(trim_unwrap(trim_drop(trim_root(soup, parameters), parameters),
                          parameters), parameters)

\* br.replace_with(NavigableString("\n"))
br_to_newline(soup) ==
    Soup([i \in 1..Len(soup.nodes) |->
             IF soup.nodes[i].name = "br"
             THEN DomNode("#text", soup.nodes[i].parent, <<"\n">>)
             ELSE soup.nodes[i]],
         soup.alive)

\* clean_html on a soup
clean_html(soup) ==
    br_to_newline(decompose(soup,
        select_all(soup, <<"style", "svg", "canvas", "template", "head", "meta",
                           "noscript">>)))

blockish ==
    {"p", "div", "section", "article", "header", "footer", "aside", "main", "nav",
     "h1", "h2", "h3", "h4", "h5", "h6", "li", "ul", "ol", "table", "thead",
     "tbody", "tr", "td", "th", "figure", "figcaption", "pre"}

\* the children of node i (0: of the document) in document order
children(soup, i) ==
    SelectSeq([k \in 1..Len(soup.nodes) |-> k],
              LAMBDA k : k \in soup.alive /\ soup.nodes[k].parent = i)

RECURSIVE strings_of(_, _, _)
RECURSIVE strings_under(_, _, _)
\* the strings get_text goes through below the nodes ks, with the "\n"
\* inserted before each block element
strings_under(soup, ks, script_text) ==
    IF ks = <<>> THEN <<>>
    ELSE (IF soup.nodes[Head(ks)].name \in blockish THEN << <<"\n">> >> ELSE <<>>)
            \o strings_of(soup, Head(ks), script_text)
            \o strings_under(soup, Tail(ks), script_text)

\* the strings of one node, with the "\n" appended to a block element
strings_of(soup, i, script_text) ==
    IF soup.nodes[i].name = "#text" THEN <<soup.nodes[i].text>>
    ELSE IF soup.nodes[i].name = "script" /\ ~script_text THEN <<>>
    ELSE strings_under(soup, children(soup, i), script_text)
            \o (IF soup.nodes[i].name \in blockish THEN << <<"\n">> >> ELSE <<>>)

\* get_text(separator=" ", strip=True): each string stripped, empty ones left out
get_text(strings) ==
    str_join(SelectSeq([k \in 1..Len(strings) |-> str_strip(strings[k])],
                       LAMBDA s : s # <<>>),
             <<" ">>)

RECURSIVE collapse_spaces(_)
\* re.sub(r"[ \t]+", " ", text)
collapse_spaces(text) ==
    IF text = <<>> THEN <<>>
    ELSE IF Head(text) \in {" ", "\t"}
    THEN IF Len(text) >= 2 /\ text[2] \in {" ", "\t"}
         THEN collapse_spaces(Tail(text))
         ELSE <<" ">> \o collapse_spaces(Tail(text))
    ELSE <<Head(text)>> \o collapse_spaces(Tail(text))

RECURSIVE collapse_newlines(_)
\* re.sub(r"\n{3,}", "\n\n", text)
collapse_newlines(text) ==
    IF text = <<>> THEN <<>>
    ELSE IF Len(text) >= 3 /\ SubSeq(text, 1, 3) = <<"\n", "\n", "\n">>
    THEN collapse_newlines(Tail(text))
    ELSE <<Head(text)>> \o collapse_newlines(Tail(text))

\* Parser._soup_to_text
soup_to_text(soup, script_text) ==
    str_strip(collapse_newlines(collapse_spaces(
        get_text(strings_under(clean_html(soup), children(clean_html(soup), 0),
                               script_text)))))

\* Parser.parse on a parsed document
parse(soup, parameters, script_text) ==
    soup_to_text(trim_soup(soup, parameters), script_text)

(***************************************************************************)
(* Parser.parse on the documents                                           *)
(*   html > body > [nav [t1], main > [p [t2], script ["bad"]]]             *)
(* and the same with html > head > title ["T"] before the body, under the  *)
(* configs with root, drop, unwrap and keep each empty or one tag name,    *)
(* carried out step by step.                                               *)
(***************************************************************************)
ParseTexts == {<<"X">>, <<"H", "e", "l", "l", "o">>, <<" ", "H", "e", "l", "l", "o", " ", " ",
        "y", "o", "u", "\n">>}

ParseDoc(t1, t2) ==
    Soup(<<DomNode("html", 0, <<>>), DomNode("body", 1, <<>>),
           DomNode("nav", 2, <<>>), DomNode("#text", 3, t1),
           DomNode("main", 2, <<>>), DomNode("p", 5, <<>>),
           DomNode("#text", 6, t2), DomNode("script", 5, <<>>),
           DomNode("#text", 8, <<"b", "a", "d">>)>>,
         1..9)

\* the same document with a head
ParseDocHead(t1, t2) ==
    Soup(<<DomNode("html", 0, <<>>), DomNode("head", 1, <<>>),
           DomNode("title", 2, <<>>), DomNode("#text", 3, <<"T">>),
           DomNode("body", 1, <<>>),
           DomNode("nav", 5, <<>>), DomNode("#text", 6, t1),
           DomNode("main", 5, <<>>), DomNode("p", 8, <<>>),
           DomNode("#text", 9, t2), DomNode("script", 8, <<>>),
           DomNode("#text", 11, <<"b", "a", "d">>)>>,
         1..12)

ParseInput(head, t1, t2) ==
    IF head THEN ParseDocHead(t1, t2) ELSE ParseDoc(t1, t2)

ParseConfigs ==
    {ParserParameters(r, k, d, u) :
        r \in {<<>>, <<"main">>, <<"h1">>},
        k \in {<<>>, <<"p">>, <<"h1">>, <<"main">>},
        d \in {<<>>, <<"script">>, <<"main">>, <<"p">>},
        u \in {<<>>, <<"main">>}}

InitParse ==
    /\ InitFresh
    /\ cw = [w \in CrawlWorkers |-> CwIdle]
    /\ sw = [s \in SynthWorkers |-> SwIdle]
    /\ \E t1 \in ParseTexts, t2 \in ParseTexts, ps \in ParseConfigs,
          script_text \in BOOLEAN, head \in BOOLEAN :
         fn = [kind |-> "parse", doc |-> ParseInput(head, t1, t2),
               parameters |-> ps,
               script_text |-> script_text, stage |-> "parsed",
               soup |-> ParseInput(head, t1, t2), after_root |-> None, after_unwrap |-> None,
               text |-> None]

\* Parser._trim_soup, the restriction to the root matches
ParseRoot ==
    /\ fn.kind = "parse" /\ fn.stage = "parsed"
    /\ fn' = [fn EXCEPT !.stage = "rooted",
                        !.soup = trim_root(fn.soup, fn.parameters),
                        !.after_root = Some(trim_root(fn.soup, fn.parameters))]
    /\ UNCHANGED <<store_prefix, store_url, q_url, q_prefix, now, cw, sw>>

\* Parser._trim_soup, step 1
ParseDrop ==
    /\ fn.kind = "parse" /\ fn.stage = "rooted"
    /\ fn' = [fn EXCEPT !.stage = "dropped",
                        !.soup = trim_drop(fn.soup, fn.parameters)]
    /\ UNCHANGED <<store_prefix, store_url, q_url, q_prefix, now, cw, sw>>

\* Parser._trim_soup, step 2
ParseUnwrap ==
    /\ fn.kind = "parse" /\ fn.stage = "dropped"
    /\ fn' = [fn EXCEPT !.stage = "unwrapped",
                        !.soup = trim_unwrap(fn.soup, fn.parameters),
                        !.after_unwrap = Some(trim_unwrap(fn.soup, fn.parameters))]
    /\ UNCHANGED <<store_prefix, store_url, q_url, q_prefix, now, cw, sw>>

\* Parser._trim_soup, step 3
ParseKeep ==
    /\ fn.kind = "parse" /\ fn.stage = "unwrapped"
    /\ fn' = [fn EXCEPT !.stage = "trimmed",
                        !.soup = trim_keep(fn.soup, fn.parameters)]
    /\ UNCHANGED <<store_prefix, store_url, q_url, q_prefix, now, cw, sw>>

\* Parser._soup_to_text
ParseText ==
    /\ fn.kind = "parse" /\ fn.stage = "trimmed"
    /\ fn' = [fn EXCEPT !.stage = "done",
                        !.text = Some(soup_to_text(fn.soup, fn.script_text))]
    /\ UNCHANGED <<store_prefix, store_url, q_url, q_prefix, now, cw, sw>>

NextParse == ParseRoot \/ ParseDrop \/ ParseUnwrap \/ ParseKeep \/ ParseText

SpecParse == InitParse /\ [][NextParse]_vars


(***************************************************************************)
(* Parser synthesis: ParserGenerator.generate_parser.  The provider is an  *)
(* input: each call to it answers, reports that the input exceeds the      *)
(* context window, or fails in another way (a different provider error, or *)
(* an answer that ParserParameters.model_validate_json rejects).  Samples  *)
(* are named by their position in url_prefix.sample_urls.                  *)
(***************************************************************************)
MaxSamples == 4

\* the most samples one answered config raises on
MaxRaising == 2

ProviderOutcomes == {"ok", "overflow", "error"}

\* an answer of the provider to a generation or repair prompt: a config is
\* told apart by the samples on which Parser.parse raises with it.  The text
\* of such an extraction error is taken not to hold the provider's
\* context-window message
ProviderAnswers(n) ==
    {[outcome |-> "ok", raises |-> r] :
        r \in {x \in SUBSET (1..n) : Cardinality(x) <= MaxRaising}}
    \cup {[outcome |-> o, raises |-> {}] : o \in {"overflow", "error"}}

\* one client.responses.create call: which prompt it was, the samples its
\* input was built from, and what the provider did
ProviderCall(kind, prompt, outcome) ==
    [kind |-> kind, prompt |-> prompt, outcome |-> outcome]

SampleUrls(n) == [i \in 1..n |-> i]

PromptAllSamples(sample_urls, num_examples) == sample_urls

\* url_prefix.sample_urls[:num_examples]
PromptSamples(sample_urls, num_examples) ==
    SubSeq(sample_urls, 1, MinOf({num_examples, Len(sample_urls)}))

\* what _generate_parser_num_examples and _reflect_on_parser hand back is a
\* Parser; _generate_parser_with_parsing_mistake hands back a ParserConfig
GeneratedObject(type, from) == [type |-> type, from |-> from]

ValidationPromptSamples(sample_urls, num_examples) ==
    SubSeq(sample_urls, 1, MinOf({num_examples, Len(sample_urls)}))

\* the second argument of both _validate_parser calls: url_prefix.sample_urls
ValidationSamples(sample_urls, num_examples) == sample_urls

\* parser.parse(sample_url.raw_content) raises: an object without a parse
\* method raises on every sample
parse_raises(parser, raises, sample_url) ==
    parser.type # "Parser" \/ sample_url \in raises

\* _validate_parser: the first sample, in list order, whose parse raises;
\* 0 stands for None
validate_parser(parser, raises, sample_urls) ==
    IF \E i \in 1..Len(sample_urls) : parse_raises(parser, raises, sample_urls[i])
    THEN sample_urls[MinOf({i \in 1..Len(sample_urls) :
                              parse_raises(parser, raises, sample_urls[i])})]
    ELSE 0

\* the retry forgets to lower the count
HandleExceptionSameCount(g, overflow) ==
    IF overflow
    THEN [g EXCEPT !.pc = "loop"]
    ELSE [g EXCEPT !.pc = "done", !.result = "raised"]

HandleExceptionRetries(g, overflow) ==
    [g EXCEPT !.num_examples = g.num_examples - 1, !.pc = "loop"]

\* the except clause of the loop: only the context-window message is retried
HandleException(g, overflow) ==
    IF overflow
    THEN [g EXCEPT !.num_examples = g.num_examples - 1, !.pc = "loop"]
    ELSE [g EXCEPT !.pc = "done", !.result = "raised"]

AfterLoopAlwaysReturns(success, reflection_prompt) ==
    IF reflection_prompt THEN "reflect" ELSE "return"

\* the statements after the while loop
AfterLoop(success, reflection_prompt) ==
    IF success
    THEN IF reflection_prompt THEN "reflect" ELSE "return"
    ELSE "raise"

InitGen ==
    /\ InitFresh
    /\ cw = [w \in CrawlWorkers |-> CwIdle]
    /\ sw = [s \in SynthWorkers |-> SwIdle]
    /\ \E n \in 0..MaxSamples, error_prompt \in BOOLEAN,
          reflection_prompt \in BOOLEAN :
         fn = [kind |-> "gen", sample_urls |-> SampleUrls(n),
               error_prompt |-> error_prompt,
               reflection_prompt |-> reflection_prompt,
               num_examples |-> n, success |-> FALSE, pc |-> "loop",
               calls |-> <<>>, parser |-> None, raises |-> {},
               validated |-> <<>>, failed_sample |-> 0,
               reflected |-> 0, result |-> "none", returned |-> None]

\* while num_examples > 0 and not success
GenLoop ==
    /\ fn.kind = "gen" /\ fn.pc = "loop"
    /\ fn' = IF fn.num_examples > 0 /\ ~fn.success
             THEN [fn EXCEPT !.pc = "generate"]
             ELSE [fn EXCEPT !.pc = AfterLoop(fn.success, fn.reflection_prompt)]
    /\ UNCHANGED <<store_prefix, store_url, q_url, q_prefix, now, cw, sw>>

\* _generate_parser_num_examples(url_prefix, num_examples)
GenGenerate(answer) ==
    /\ fn.kind = "gen" /\ fn.pc = "generate"
    /\ fn' = IF answer.outcome = "ok"
             THEN [fn EXCEPT
                     !.calls = Append(@, ProviderCall("generate",
                         PromptSamples(fn.sample_urls, fn.num_examples),
                         answer.outcome)),
                     !.parser = Some(GeneratedObject("Parser", Len(fn.calls) + 1)),
                     !.raises = answer.raises,
                     !.pc = "validate"]
             ELSE HandleException(
                    [fn EXCEPT !.calls = Append(@, ProviderCall("generate",
                         PromptSamples(fn.sample_urls, fn.num_examples),
                         answer.outcome))],
                    answer.outcome = "overflow")
    /\ UNCHANGED <<store_prefix, store_url, q_url, q_prefix, now, cw, sw>>

\* what follows the first _validate_parser call, which reported bad
AfterValidate(g, samples, bad) ==
    IF bad = 0
    THEN [g EXCEPT !.validated = Append(@, samples), !.success = TRUE,
                   !.pc = "loop"]
    ELSE IF g.error_prompt
         THEN [g EXCEPT !.validated = Append(@, samples),
                        !.failed_sample = bad, !.pc = "repair"]
         ELSE HandleException([g EXCEPT !.validated = Append(@, samples),
                                        !.failed_sample = bad], FALSE)

\* _validate_parser(parser, url_prefix.sample_urls) on the generated parser
GenValidate ==
    /\ fn.kind = "gen" /\ fn.pc = "validate"
    /\ fn' = AfterValidate(fn,
                ValidationSamples(fn.sample_urls, fn.num_examples),
                validate_parser(The(fn.parser), fn.raises,
                    ValidationSamples(fn.sample_urls, fn.num_examples)))
    /\ UNCHANGED <<store_prefix, store_url, q_url, q_prefix, now, cw, sw>>

\* what follows the second _validate_parser call, which reported bad: the
\* flag success is set on the first validation only
AfterRevalidate(g, samples, bad) ==
    IF bad = 0
    THEN [g EXCEPT !.validated = Append(@, samples), !.pc = "loop"]
    ELSE HandleException([g EXCEPT !.validated = Append(@, samples)], FALSE)

\* _generate_parser_with_parsing_mistake, then the second _validate_parser:
\* the repaired object is a ParserConfig, which has no parse method
GenRepair(answer) ==
    /\ fn.kind = "gen" /\ fn.pc = "repair"
    /\ fn' = IF answer.outcome = "ok"
             THEN AfterRevalidate(
                    [fn EXCEPT
                       !.calls = Append(@, ProviderCall("repair",
                           <<fn.failed_sample>>, answer.outcome)),
                       !.parser = Some(GeneratedObject("ParserConfig",
                                                       Len(fn.calls) + 1)),
                       !.raises = answer.raises],
                    ValidationSamples(fn.sample_urls, fn.num_examples),
                    validate_parser(GeneratedObject("ParserConfig",
                                                    Len(fn.calls) + 1),
                        answer.raises,
                        ValidationSamples(fn.sample_urls, fn.num_examples)))
             ELSE HandleException(
                    [fn EXCEPT !.calls = Append(@, ProviderCall("repair",
                           <<fn.failed_sample>>, answer.outcome))],
                    answer.outcome = "overflow")
    /\ UNCHANGED <<store_prefix, store_url, q_url, q_prefix, now, cw, sw>>

\* one round of the loop of _reflect_on_parser; after the last sample the
\* merged config is wrapped in a Parser and returned
GenReflect(outcome) ==
    /\ fn.kind = "gen" /\ fn.pc = "reflect"
    /\ fn' = IF outcome # "ok"
             THEN [fn EXCEPT
                     !.calls = Append(@, ProviderCall("reflect",
                         <<fn.sample_urls[fn.reflected + 1]>>, outcome)),
                     !.pc = "done", !.result = "raised"]
             ELSE IF fn.reflected + 1 < Len(fn.sample_urls)
             THEN [fn EXCEPT
                     !.calls = Append(@, ProviderCall("reflect",
                         <<fn.sample_urls[fn.reflected + 1]>>, outcome)),
                     !.reflected = @ + 1]
             ELSE [fn EXCEPT
                     !.calls = Append(@, ProviderCall("reflect",
                         <<fn.sample_urls[fn.reflected + 1]>>, outcome)),
                     !.reflected = @ + 1,
                     !.parser = Some(GeneratedObject("Parser", Len(fn.calls) + 1)),
                     !.returned = Some(GeneratedObject("Parser", Len(fn.calls) + 1)),
                     !.pc = "done", !.result = "returned"]
    /\ UNCHANGED <<store_prefix, store_url, q_url, q_prefix, now, cw, sw>>

\* return parser
GenReturn ==
    /\ fn.kind = "gen" /\ fn.pc = "return"
    /\ fn' = [fn EXCEPT !.pc = "done", !.result = "returned",
                        !.returned = fn.parser]
    /\ UNCHANGED <<store_prefix, store_url, q_url, q_prefix, now, cw, sw>>

\* raise Exception("Failed to generate parser")
GenRaise ==
    /\ fn.kind = "gen" /\ fn.pc = "raise"
    /\ fn' = [fn EXCEPT !.pc = "done", !.result = "raised"]
    /\ UNCHANGED <<store_prefix, store_url, q_url, q_prefix, now, cw, sw>>

NextGen ==
    \/ GenLoop
    \/ \E answer \in ProviderAnswers(Len(fn.sample_urls)) : GenGenerate(answer)
    \/ GenValidate
    \/ \E answer \in ProviderAnswers(Len(fn.sample_urls)) : GenRepair(answer)
    \/ \E outcome \in ProviderOutcomes : GenReflect(outcome)
    \/ GenReturn
    \/ GenRaise

SpecGen == InitGen /\ [][NextGen]_vars

MaxFairSamples == 3

\* the prefixes of at most MaxFairSamples samples
InitGenFair == InitGen /\ Len(fn.sample_urls) <= MaxFairSamples

\* every provider call returns or raises, and the interpreter goes on
SpecGenFair == InitGenFair /\ [][NextGen]_vars /\ WF_vars(NextGen)


(***************************************************************************)
(* The run-state flag and the two worker loops: db.set_system_state,       *)
(* db.get_system_state, ParsingWorker.run, ParserGenerationWorker.run.     *)
(* One crawl worker and one synthesis worker run against the store of a    *)
(* fresh deployment while an operator sets the flag; fn holds the flag as  *)
(* stored (None: the key was never set), the last call of set_system_state *)
(* and where each loop stands: "top" before the flag is read, "running" or *)
(* "paused" after it, "item" once an item is popped, "stopped" after the   *)
(* break, with the exception that led to it.                               *)
(***************************************************************************)
StateInputs == {"RUNNING", "PAUSE", "PAUSED"}

AcceptsOnlyPaused == {"PAUSED", "RUNNING"}

\* if state not in ["PAUSE", "RUNNING"]
AcceptedStates == {"PAUSE", "RUNNING"}

\* set_system_state(state): a ValueError, or R.set(SYSTEM_STATE_KEY, state)
set_system_state(flag, state) ==
    IF state \notin AcceptedStates
    THEN [raised |-> TRUE, flag |-> flag]
    ELSE [raised |-> FALSE, flag |-> Some(state)]

\* get_system_state(): the stored value, "RUNNING" when there is none
get_system_state(flag) == IF flag # None THEN The(flag) ELSE "RUNNING"

always_running(flag) == TRUE

is_system_running(flag) == get_system_state(flag) = "RUNNING"

LoopHandlerBreaks(exc) == "stopped"

\* except KeyboardInterrupt: break / except Exception: sleep and go on
LoopHandler(exc) == IF exc = "KeyboardInterrupt" THEN "stopped" ELSE "top"

LoopExceptions == {"Exception", "KeyboardInterrupt"}

InitRun ==
    /\ InitFresh
    /\ cw = [w \in CrawlWorkers |-> CwIdle]
    /\ sw = [s \in SynthWorkers |-> SwIdle]
    /\ fn = [kind |-> "run", system_state |-> None, last_set |-> None,
             cw_loop |-> "top", sw_loop |-> "top",
             cw_stopped_by |-> "none", sw_stopped_by |-> "none"]

\* PUT /system/state: set_system_state(state)
RunSet(state) ==
    /\ fn.kind = "run"
    /\ fn' = [fn EXCEPT
                !.system_state = set_system_state(fn.system_state, state).flag,
                !.last_set = Some([state |-> state,
                    raised |-> set_system_state(fn.system_state, state).raised])]
    /\ UNCHANGED <<store_prefix, store_url, q_url, q_prefix, now, cw, sw>>

\* ParsingWorker.run: if not is_system_running()
RunCwCheck ==
    /\ fn.kind = "run" /\ fn.cw_loop \in {"top", "item"} /\ cw[1].pc = "idle"
    /\ fn' = [fn EXCEPT !.cw_loop = IF is_system_running(fn.system_state)
                                    THEN "running" ELSE "paused"]
    /\ UNCHANGED <<store_prefix, store_url, q_url, q_prefix, now, cw, sw>>

\* ParsingWorker.run: await asyncio.sleep(1); continue
RunCwSleep ==
    /\ fn.kind = "run" /\ fn.cw_loop = "paused"
    /\ fn' = [fn EXCEPT !.cw_loop = "top"]
    /\ UNCHANGED <<store_prefix, store_url, q_url, q_prefix, now, cw, sw>>

\* ParsingWorker.run: queue_item = get_from_queue(URLQueueItem), None when the
\* queue is empty
RunCwPop ==
    /\ fn.kind = "run" /\ fn.cw_loop = "running"
    /\ IF Len(q_url) > 0
       THEN /\ q_url' = QueueRest(q_url)
            /\ cw' = [cw EXCEPT ![1] = [CwIdle EXCEPT !.pc = "start",
                                                      !.item = QueueFront(q_url)]]
            /\ fn' = [fn EXCEPT !.cw_loop = "item"]
       ELSE /\ fn' = [fn EXCEPT !.cw_loop = "top"]
            /\ UNCHANGED <<q_url, cw>>
    /\ UNCHANGED <<store_prefix, store_url, q_prefix, now, sw>>

\* ParsingWorker.run: result = await self.process_url_queue_item(queue_item)
RunCwItem ==
    /\ fn.kind = "run" /\ fn.cw_loop = "item"
    /\ \/ CwDefer(1) \/ CwDue(1) \/ CwFindPrefix(1) \/ CwScan(1) \/ CwLoadUrl(1)
       \/ CwFetch(1) \/ CwSaveUrl(1) \/ CwLinkLoad(1) \/ CwLinkPush(1)
       \/ CwNcFetch(1) \/ CwNcLoad(1) \/ CwNcSave(1) \/ CwNcPushPrefix(1)
       \/ CwNcRequeue(1) \/ CwFinish(1)

\* a store operation of process_url_queue_item raises (add_to_queue takes its
\* own exceptions and returns False): the link loop swallows it and the item
\* succeeds, anywhere else the outer handler returns the error result
RunCwItemError ==
    /\ fn.kind = "run" /\ fn.cw_loop = "item"
    /\ cw[1].pc \in {"find", "scan", "load_url", "save_url", "link_load",
                     "nc_load", "nc_save"}
    /\ cw' = [cw EXCEPT ![1] =
                 CwDone(1, IF cw[1].pc = "link_load"
                           THEN "success" ELSE "error",
                        CwLog(1, Eff("raise", cw[1].item.url, 0, 0, "", <<>>)))]
    /\ UNCHANGED <<store_prefix, store_url, q_url, q_prefix, now, sw, fn>>

\* ParsingWorker.run: an exception reaches the handlers of the loop. The
\* handlers of process_url_queue_item and of get_from_queue take every
\* Exception, so one reaches the loop only from is_system_running; a
\* KeyboardInterrupt reaches it from anywhere.
RunCwException(exc) ==
    /\ fn.kind = "run" /\ fn.cw_loop # "stopped"
    /\ exc = "Exception" => fn.cw_loop \in {"top", "item"} /\ cw[1].pc = "idle"
    /\ fn' = [fn EXCEPT !.cw_loop = LoopHandler(exc),
                        !.cw_stopped_by = IF LoopHandler(exc) = "stopped"
                                          THEN exc ELSE @]
    /\ UNCHANGED <<store_prefix, store_url, q_url, q_prefix, now, cw, sw>>

\* ParserGenerationWorker.run: if not is_system_running()
RunSwCheck ==
    /\ fn.kind = "run" /\ fn.sw_loop \in {"top", "item"} /\ sw[1].pc = "idle"
    /\ fn' = [fn EXCEPT !.sw_loop = IF is_system_running(fn.system_state)
                                    THEN "running" ELSE "paused"]
    /\ UNCHANGED <<store_prefix, store_url, q_url, q_prefix, now, cw, sw>>

\* ParserGenerationWorker.run: await asyncio.sleep(5); continue
RunSwSleep ==
    /\ fn.kind = "run" /\ fn.sw_loop = "paused"
    /\ fn' = [fn EXCEPT !.sw_loop = "top"]
    /\ UNCHANGED <<store_prefix, store_url, q_url, q_prefix, now, cw, sw>>

\* ParserGenerationWorker.run: url_prefix = get_from_queue(URLPrefix)
RunSwPop ==
    /\ fn.kind = "run" /\ fn.sw_loop = "running"
    /\ IF Len(q_prefix) > 0
       THEN /\ q_prefix' = QueueRest(q_prefix)
            /\ sw' = [sw EXCEPT ![1] = [SwIdle EXCEPT !.pc = "load",
                                          !.job = QueueFront(q_prefix),
                                          !.url_prefix = QueueFront(q_prefix)]]
            /\ fn' = [fn EXCEPT !.sw_loop = "item"]
       ELSE /\ fn' = [fn EXCEPT !.sw_loop = "top"]
            /\ UNCHANGED <<q_prefix, sw>>
    /\ UNCHANGED <<store_prefix, store_url, q_url, now, cw>>

\* ParserGenerationWorker.run: result = await self.process_url_prefix_job(url_prefix)
RunSwItem ==
    /\ fn.kind = "run" /\ fn.sw_loop = "item"
    /\ \/ SwLoad(1) \/ SwReset(1) \/ SwMark(1) \/ SwGenerate(1) \/ SwComplete(1)
       \/ SwFail(1) \/ SwFinish(1)

\* a store operation of process_url_prefix_job raises: its handler takes over
RunSwItemError ==
    /\ fn.kind = "run" /\ fn.sw_loop = "item"
    /\ sw[1].pc \in {"load", "reset", "mark", "complete"}
    /\ sw' = [sw EXCEPT ![1] = [sw[1] EXCEPT !.pc = "failed", !.raised = TRUE]]
    /\ UNCHANGED <<store_prefix, store_url, q_url, q_prefix, now, cw, fn>>

\* ParserGenerationWorker.run: an exception reaches the handlers of the loop
RunSwException(exc) ==
    /\ fn.kind = "run" /\ fn.sw_loop # "stopped"
    /\ exc = "Exception" => fn.sw_loop \in {"top", "item"} /\ sw[1].pc = "idle"
    /\ fn' = [fn EXCEPT !.sw_loop = LoopHandler(exc),
                        !.sw_stopped_by = IF LoopHandler(exc) = "stopped"
                                          THEN exc ELSE @]
    /\ UNCHANGED <<store_prefix, store_url, q_url, q_prefix, now, cw, sw>>

NextRun ==
    \/ \E state \in StateInputs : RunSet(state)
    \/ RunCwCheck
    \/ RunCwSleep
    \/ RunCwPop
    \/ RunCwItem
    \/ RunCwItemError
    \/ \E exc \in LoopExceptions : RunCwException(exc)
    \/ RunSwCheck
    \/ RunSwSleep
    \/ RunSwPop
    \/ RunSwItem
    \/ RunSwItemError
    \/ \E exc \in LoopExceptions : RunSwException(exc)
    \/ Tick

SpecRun == InitRun /\ [][NextRun]_vars


(***************************************************************************)
(* Reflection: the statements of generate_parser after the loop, entered   *)
(* with success set, and _reflect_on_parser.  The provider answers each    *)
(* reflection prompt with a ParserParameters or fails.                     *)
(***************************************************************************)
MaxReflectSamples == 3

\* what a reflection call may answer
\* a selector that soup.select rejects with a SelectorSyntaxError
MalformedSelectors == {"p["}

\* Parser.parse with these parameters raises, on every document: _trim_soup
\* hands each selector of a non-empty list to soup.select
select_raises(parameters) ==
    \E l \in {parameters.root, parameters.keep, parameters.drop,
               parameters.unwrap} :
        \E i \in 1..Len(l) : l[i] \in MalformedSelectors

ReflectResponses ==
    {ParserParameters(r, k, <<"nav">>, u) :
        r \in {<<"div">>, <<"p", "div">>}, k \in {<<>>, <<"p", "p">>},
        u \in {<<>>, <<"span">>, <<"p[">>}}

\* the configs that validation may have accepted, of the prefix a.com/docs
ValidatedConfigs ==
    {ParserConfig(ParserParameters(<<"main">>, k, <<"script">>, <<>>),
                  "a.com/docs") : k \in {<<>>, <<"p">>}}

ReduceInitialValidated(parser_config, parser_configs) == parser_config

\* reduce(lambda x, y: x + y, parser_configs) starts from the first element
ReduceInitial(parser_config, parser_configs) == parser_configs[1]

InitReflect ==
    /\ InitFresh
    /\ cw = [w \in CrawlWorkers |-> CwIdle]
    /\ sw = [s \in SynthWorkers |-> SwIdle]
    /\ \E n \in 1..MaxReflectSamples, config \in ValidatedConfigs,
          reflection_prompt \in BOOLEAN :
         fn = [kind |-> "reflect", sample_urls |-> SampleUrls(n),
               prefix |-> config.prefix_name,
               reflection_prompt |-> reflection_prompt,
               parser |-> config, calls |-> <<>>, responses |-> <<>>,
               parser_configs |-> <<>>, merged |-> None, reduced |-> 0,
               pc |-> AfterLoop(TRUE, reflection_prompt), returned |-> None]

\* one round of the loop of _reflect_on_parser: the prompt is built from the
\* sample and the validated parser, the answer becomes a config of the prefix
ReflectCall(parameters) ==
    /\ fn.kind = "reflect" /\ fn.pc = "reflect"
    /\ Len(fn.calls) < Len(fn.sample_urls)
    /\ fn' = [fn EXCEPT
                !.calls = Append(@, fn.sample_urls[Len(fn.calls) + 1]),
                !.responses = Append(@, parameters),
                !.parser_configs = Append(@, ParserConfig(parameters, fn.prefix))]
    /\ UNCHANGED <<store_prefix, store_url, q_url, q_prefix, now, cw, sw>>

\* a reflection call that raises, for the context window or anything else:
\* no try encloses it
ReflectCallFails ==
    /\ fn.kind = "reflect" /\ fn.pc = "reflect"
    /\ Len(fn.calls) < Len(fn.sample_urls)
    /\ fn' = [fn EXCEPT
                !.calls = Append(@, fn.sample_urls[Len(fn.calls) + 1]),
                !.pc = "raised"]
    /\ UNCHANGED <<store_prefix, store_url, q_url, q_prefix, now, cw, sw>>

\* reduce takes the first config
ReflectReduceFirst ==
    /\ fn.kind = "reflect" /\ fn.pc = "reflect"
    /\ Len(fn.calls) = Len(fn.sample_urls)
    /\ fn' = [fn EXCEPT
                !.merged = Some(ReduceInitial(fn.parser, fn.parser_configs)),
                !.reduced = 1, !.pc = "reduce"]
    /\ UNCHANGED <<store_prefix, store_url, q_url, q_prefix, now, cw, sw>>

\* reduce adds the next config: x + y
ReflectReduce ==
    /\ fn.kind = "reflect" /\ fn.pc = "reduce"
    /\ fn.reduced < Len(fn.parser_configs)
    /\ \E sum \in config_add(The(fn.merged), fn.parser_configs[fn.reduced + 1]) :
         fn' = [fn EXCEPT !.merged = Some(sum), !.reduced = @ + 1]
    /\ UNCHANGED <<store_prefix, store_url, q_url, q_prefix, now, cw, sw>>

\* parser = Parser(config=parser_configs); return parser
ReflectReturn ==
    /\ fn.kind = "reflect" /\ fn.pc = "reduce"
    /\ fn.reduced = Len(fn.parser_configs)
    /\ fn' = [fn EXCEPT !.parser = The(fn.merged), !.pc = "done",
                        !.returned = fn.merged]
    /\ UNCHANGED <<store_prefix, store_url, q_url, q_prefix, now, cw, sw>>

\* no reflection prompt: return parser
ReflectSkip ==
    /\ fn.kind = "reflect" /\ fn.pc = "return"
    /\ fn' = [fn EXCEPT !.pc = "done", !.returned = Some(fn.parser)]
    /\ UNCHANGED <<store_prefix, store_url, q_url, q_prefix, now, cw, sw>>

NextReflect ==
    \/ \E parameters \in ReflectResponses : ReflectCall(parameters)
    \/ ReflectCallFails
    \/ ReflectReduceFirst
    \/ ReflectReduce
    \/ ReflectReturn
    \/ ReflectSkip

SpecReflect == InitReflect /\ [][NextReflect]_vars


(***************************************************************************)
(* ParsingWorker.get_deepest_prefix on URL strings, query and fragment     *)
(* included.                                                               *)
(***************************************************************************)
\* url.split(sep)[0] when sep is in url
before_first(url, sep) ==
    IF str_contains(url, sep) THEN str_split(url, sep)[1] ELSE url

RECURSIVE pop_empty_parts(_)
\* while parts and not parts[-1]: parts.pop()
pop_empty_parts(parts) ==
    IF parts # <<>> /\ parts[Len(parts)] = <<>>
    THEN pop_empty_parts(SubSeq(parts, 1, Len(parts) - 1))
    ELSE parts

\* if parts: parts.pop()
pop_last(parts) ==
    IF parts # <<>> THEN SubSeq(parts, 1, Len(parts) - 1) ELSE parts

\* the branches on len(parts)
deepest_of_parts(parts) ==
    IF Len(parts) > 3
    THEN str_join(pop_last(pop_empty_parts(parts)), <<"/">>)
    ELSE str_join(parts, <<"/">>)

\* get_deepest_prefix(url)
get_deepest_prefix_str(url) ==
    deepest_of_parts(
        str_split(before_first(before_first(url, <<"?">>), <<"#">>), <<"/">>))

PrefixSchemes == {<<"h", "t", "t", "p">>, <<"h", "t", "t", "p", "s">>}

PrefixHosts == {<<"a", ".", "c", "o", "m">>, <<"b", ".", "o", "r", "g">>}

\* the paths: none, the root, and paths of one and two segments with and
\* without a trailing slash
PrefixPaths ==
    {<<>>, <<"/">>, <<"/", "d">>, <<"/", "d", "/">>, <<"/", "d", "/", "p">>,
     <<"/", "d", "/", "p", "/">>, <<"/", "d", "/", "p", ".", "h">>}

PrefixQueries == {<<>>, <<"?", "q", "=", "1">>, <<"?", "u", "=", "/", "x", "/", "y">>}

PrefixFragments == {<<>>, <<"#", "s">>, <<"#", "a", "/", "b">>}

InitPrefix ==
    /\ InitFresh
    /\ cw = [w \in CrawlWorkers |-> CwIdle]
    /\ sw = [s \in SynthWorkers |-> SwIdle]
    /\ \E s \in PrefixSchemes, h \in PrefixHosts, p \in PrefixPaths,
          q \in PrefixQueries, f \in PrefixFragments :
         fn = [kind |-> "prefix", root |-> s \o <<":", "/", "/">> \o h,
               path |-> p, url |-> s \o <<":", "/", "/">> \o h \o p \o q \o f,
               out |-> None]

\* get_deepest_prefix(url)
PrefixDerive ==
    /\ fn.kind = "prefix" /\ fn.out = None
    /\ fn' = [fn EXCEPT !.out = Some(get_deepest_prefix_str(fn.url))]
    /\ UNCHANGED <<store_prefix, store_url, q_url, q_prefix, now, cw, sw>>

NextPrefix == PrefixDerive

SpecPrefix == InitPrefix /\ [][NextPrefix]_vars


(***************************************************************************)
(* Properties of the worker system.                                        *)
(***************************************************************************)
LogOps(log) == {log[i].op : i \in 1..Len(log)}

\* the worker has read the clock and the store for the item it holds
CwPastScan(c) == c.pc \notin {"idle", "start", "find", "scan"}

RowCount(prefix) == Cardinality(find_urls_with_prefix(store_url, prefix))

\* C1: a due item whose URL resolves to a prefix with 20 or more URL rows is
\* dropped, with or without a parser config on the prefix: the worker has
\* made no fetch, written no URL or URLPrefix row and pushed nothing onto
\* either queue, and whoever is dropped saw at least 20 rows.
C1_CapDrops ==
    \A w \in CrawlWorkers :
      LET c == cw[w]
      IN  /\ (CwPastScan(c) /\ c.prefix # None /\ c.count >= URL_CAP)
               => /\ c.pc = "done"
                  /\ c.result = "dropped"
                  /\ LogOps(c.log) \subseteq {"load_prefix", "scan_urls"}
          /\ (c.pc = "done" /\ c.result = "dropped")
               => c.prefix # None /\ c.count >= URL_CAP

\* C1 witness: an item was dropped at the cap for a prefix that has no config
C1_Witness ==
    \E w \in CrawlWorkers :
      /\ cw[w].pc = "done"
      /\ cw[w].result = "dropped"
      /\ cw[w].count >= URL_CAP
      /\ The(cw[w].prefix).parser_config = None

\* C2: with W crawl workers the number of stored URL rows whose prefix field
\* is P never exceeds 20 + (W - 1).
C2_CapInvariant ==
    \A u \in DOMAIN store_url :
      RowCount(store_url[u].prefix) <= URL_CAP + (NumCrawlWorkers - 1)

\* C2 witness: the bound is met: 20 + (W - 1) rows are stored for the prefix,
\* the last of them by a worker that scanned before the cap was reached
C2_Witness ==
    /\ RowCount(DocsPrefix) = URL_CAP + (NumCrawlWorkers - 1)
    /\ \E w \in CrawlWorkers : cw[w].pc = "link_load" /\ cw[w].count < URL_CAP

\* C3: an item popped before its process_from_unix_timestamp is pushed back
\* once, with the same url, timestamp and times_queued, the result is
\* `deferred`, and the worker has made no fetch, no store read and no store
\* write; no other item ends as `deferred`.
C3_Deferred ==
    \A w \in CrawlWorkers :
      LET c == cw[w]
      IN  /\ (c.pc \notin {"idle", "start"}
              /\ c.t0 < c.item.process_from_unix_timestamp)
               => /\ c.pc = "done"
                  /\ c.result = "deferred"
                  /\ c.log = <<PushUrlEff(c.item)>>
          /\ (c.pc = "done" /\ c.result = "deferred")
               => c.t0 < c.item.process_from_unix_timestamp

\* C3 witness: a requeued item was popped early and deferred
C3_Witness ==
    \E w \in CrawlWorkers :
      /\ cw[w].pc = "done"
      /\ cw[w].result = "deferred"
      /\ cw[w].item.times_queued > 0
      /\ Len(q_url) > 0 /\ q_url[1] = cw[w].item

StatusRank(st) ==
    IF st = "none" THEN 0 ELSE IF st = "in_progress" THEN 1 ELSE 2

\* the moves of a stored status that go forward, and failed back to none
StatusMoveAllowed(old, new) ==
    \/ old = new
    \/ StatusRank(old) < StatusRank(new)
    \/ old = "failed" /\ new = "none"

\* C4 (as claimed): the stored processing_status of a prefix only moves
\* forward, except for failed -> none; a prefix stored as completed is never
\* afterwards stored as in_progress or none.
C4_StatusMonotonic ==
    [][\A p \in DOMAIN store_prefix :
         StatusMoveAllowed(store_prefix[p].processing_status,
                           store_prefix'[p].processing_status)]_vars

\* C5: a job whose stored prefix was `failed` stores it with status none,
\* then with status in_progress, then runs synthesis on the stored copy (its
\* samples, not those of the queued copy), and ends with a new outcome.
C5_FailedRecovery ==
    \A s \in SynthWorkers :
      LET c == sw[s]
      IN  (c.pc = "done" /\ c.existing # None
           /\ The(c.existing).processing_status = "failed")
            => LET stored == The(c.existing)
               IN  /\ Len(c.log) = 4
                   /\ c.log[1] = Eff("save_prefix", stored.prefix, 0, 0, "none",
                                     stored.sample_urls)
                   /\ c.log[2] = Eff("save_prefix", stored.prefix, 0, 0, "in_progress",
                                     stored.sample_urls)
                   /\ c.log[3] = Eff("generate", stored.prefix, 0, 0, "in_progress",
                                     stored.sample_urls)
                   /\ c.log[4].op = "save_prefix"
                   /\ c.log[4].st \in {"completed", "failed"}
                   /\ c.log[4].val = stored.sample_urls
                   /\ c.result \in {"success", "error"}

\* C5 witness: a failed prefix was retried and the queued copy differed from
\* the stored one
C5_Witness ==
    \E s \in SynthWorkers :
      /\ sw[s].pc = "done"
      /\ sw[s].existing # None
      /\ The(sw[s].existing).processing_status = "failed"
      /\ sw[s].job.sample_urls # The(sw[s].existing).sample_urls

\* C6: when generate_parser or the loading of the production config raises,
\* the job stores the prefix with status failed, returns an error result and
\* stores no `completed` for that attempt; no other job returns `error`.
C6_FailureMarked ==
    \A s \in SynthWorkers :
      LET c == sw[s]
      IN  /\ (c.pc = "done" /\ c.raised)
               => /\ c.result = "error"
                  /\ c.log[Len(c.log)].op = "save_prefix"
                  /\ c.log[Len(c.log)].st = "failed"
                  /\ \A i \in 1..Len(c.log) : c.log[i].st # "completed"
          /\ (c.pc = "done" /\ c.result = "error") => c.raised

\* C6 witness: a job whose synthesis raised has stored the prefix as failed
C6_Witness ==
    \E s \in SynthWorkers :
      /\ sw[s].pc = "done"
      /\ sw[s].raised
      /\ sw[s].job.prefix \in DOMAIN store_prefix
      /\ store_prefix[sw[s].job.prefix].processing_status = "failed"

\* C7: for each entity type the items come out of get_from_queue in exactly
\* the order add_to_queue pushed them (what was popped, followed by what is
\* still queued from the pop end on, is what was pushed, per entity type, so
\* neither queue ever holds or yields the other's items), and an item put
\* back by its consumer is popped only after every item that was in its
\* queue at that moment.
C7_QueueOrder ==
    fn.kind = "queue" =>
        /\ \A c \in ModelClasses :
             fn.popped[c] \o Reverse(fn.lists[QueueNameOf(c)]) = fn.pushed[c]
        /\ \A c \in ModelClasses : \A r \in fn.requeues :
             \A i \in 1..Len(fn.popped[c]) :
                fn.popped[c][i].serial = r.serial =>
                    r.ahead \subseteq SerialsOf(SubSeq(fn.popped[c], 1, i - 1))

\* a put-back item that had another item ahead of it has been popped again,
\* and the prefix queue has been popped from as well
C7_Witness ==
    /\ fn.kind = "queue"
    /\ Len(fn.popped["URLPrefix"]) > 0
    /\ \E r \in fn.requeues :
         /\ r.ahead # {}
         /\ r.serial \in SerialsOf(fn.popped["URLQueueItem"])


\* C8: for configs a, b, c of one prefix name, (a+b)+c equals a+(b+c), a+b
\* equals b+a and a+a equals a under the equality the program has on configs,
\* and each selector field of a+b holds exactly the selectors of the two
\* operands' fields.
C8_MergeAlgebra ==
    (fn.kind = "merge" /\ fn.law # "none") =>
        /\ The(fn.lhs) = The(fn.rhs)
        /\ fn.law = "commute" =>
             /\ set(The(fn.lhs).parameters.root)
                  = set(fn.a.parameters.root) \cup set(fn.b.parameters.root)
             /\ set(The(fn.lhs).parameters.keep)
                  = set(fn.a.parameters.keep) \cup set(fn.b.parameters.keep)
             /\ set(The(fn.lhs).parameters.drop)
                  = set(fn.a.parameters.drop) \cup set(fn.b.parameters.drop)
             /\ set(The(fn.lhs).parameters.unwrap)
                  = set(fn.a.parameters.unwrap) \cup set(fn.b.parameters.unwrap)


\* C9: normalizing a normalized URL changes nothing:
\* normalize_url(normalize_url(u)) = normalize_url(u) for every URL u, among
\* them hosts with a repeated leading "www.", paths ending in more than one
\* "/", explicit ports and query strings.
C9_Idempotent ==
    (fn.kind = "norm" /\ fn.twice # None) => The(fn.twice) = The(fn.once)


\* the position of the first anchor of the page whose normalized link is u
FirstSeen(u) == MinOf({i \in 1..Len(fn.seen) : fn.seen[i] = u})

\* C10: the list extract_links_from_html returns holds no URL twice, holds
\* its URLs in the order in which the page first shows them, and each of its
\* URLs is the normalized form of one of the page's links, has scheme http
\* or https, starts with the target prefix as a string and is not the
\* normalized base URL.
C10_Outlinks ==
    (fn.kind = "links" /\ fn.out # None) =>
        LET out == The(fn.out)
        IN  /\ \A i, j \in 1..Len(out) : i # j => out[i] # out[j]
            /\ \A i \in 1..Len(out) : \E k \in 1..Len(fn.seen) : fn.seen[k] = out[i]
            /\ \A i, j \in 1..Len(out) :
                  i < j => FirstSeen(out[i]) < FirstSeen(out[j])
            /\ \A i \in 1..Len(out) :
                  /\ \/ str_startswith(out[i], <<"h", "t", "t", "p", ":", "/", "/">>)
                     \/ str_startswith(out[i], <<"h", "t", "t", "p", "s", ":", "/", "/">>)
                  /\ str_startswith(out[i], fn.target_prefix)
                  /\ out[i] # normalize_url(fn.base_url)

\* a page that shows one kept link twice around another kept link: the
\* output has the two URLs once each, in the order of their first showing
C10_Witness ==
    /\ fn.kind = "links" /\ fn.out # None
    /\ Len(The(fn.out)) = 2
    /\ Len(fn.seen) = 3
    /\ fn.seen[1] = fn.seen[3]
    /\ fn.seen[1] = The(fn.out)[1]
    /\ fn.seen[2] = The(fn.out)[2]

\* C11: Parser.parse on html > body > [nav "X", main > [p "Hello", script
\* "bad"]] with root = ["main"], drop = ["script"] and empty keep and unwrap
\* returns exactly the text "Hello": no nav text, no script text, no
\* whitespace around it.
C11_EndToEnd ==
    (/\ fn.kind = "parse" /\ fn.stage = "done"
     /\ fn.doc = ParseDoc(<<"X">>, <<"H", "e", "l", "l", "o">>)
     /\ fn.parameters = ParserParameters(<<"main">>, <<>>, <<"script">>, <<>>))
        => The(fn.text) = <<"H", "e", "l", "l", "o">>

\* the document and the config of the example have been through parse
C11_Witness ==
    /\ fn.kind = "parse" /\ fn.stage = "done"
    /\ fn.doc = ParseDoc(<<"X">>, <<"H", "e", "l", "l", "o">>)
    /\ fn.parameters = ParserParameters(<<"main">>, <<>>, <<"script">>, <<>>)
    /\ fn.script_text
    /\ fn.soup.alive = {1, 2, 5, 6, 7}

CallsOfKind(calls, kind) == {i \in 1..Len(calls) : calls[i].kind = kind}

\* the provider reported the context window for every size above the last
\* one tried, and answered the last generation call
DegradedThenAnswered(g) ==
    /\ Len(g.calls) >= 1
    /\ \A i \in 1..(Len(g.calls) - 1) :
          g.calls[i].kind = "generate" /\ g.calls[i].outcome = "overflow"
    /\ g.calls[Len(g.calls)].kind = "generate"
    /\ g.calls[Len(g.calls)].outcome = "ok"
    /\ g.success

C14_NoDegradedParser ==
    (fn.kind = "gen" /\ fn.pc = "done")
        => /\ fn.result \in {"returned", "raised"}
           /\ fn.result = "raised" => fn.returned = None
           /\ fn.result = "returned" =>
                 /\ fn.returned # None
                 /\ The(fn.returned).type = "Parser"
                 /\ The(fn.returned).from \in 1..Len(fn.calls)
                 /\ fn.calls[The(fn.returned).from].outcome = "ok"
                 /\ fn.success
           /\ (Len(fn.sample_urls) > 0 /\ fn.num_examples = 0) =>
                 /\ fn.result = "raised"
                 /\ Cardinality(CallsOfKind(fn.calls, "generate"))
                        = Len(fn.sample_urls)
           /\ Len(fn.sample_urls) = 0 =>
                 fn.result = "raised" /\ fn.calls = <<>>

C14_Witness ==
    /\ fn.kind = "gen" /\ fn.pc = "done" /\ fn.result = "raised"
    /\ Len(fn.sample_urls) = MaxSamples /\ fn.num_examples = 0
    /\ Len(fn.calls) = MaxSamples
    /\ \A i \in 1..Len(fn.calls) : fn.calls[i].outcome = "overflow"

\* C13 as stated: set_system_state accepts exactly the values RUNNING and
\* PAUSED and rejects every other value.
C13_AcceptsPaused ==
    (fn.kind = "run" /\ fn.last_set # None)
        => (The(fn.last_set).raised
                <=> The(fn.last_set).state \notin {"RUNNING", "PAUSED"})

\* C13, amended: set_system_state accepts exactly the values RUNNING and
\* PAUSE, storing the value, and rejects every other value (PAUSED among
\* them) with an error that leaves the stored flag as it was;
\* get_system_state returns RUNNING while the flag has never been set.
C13_RunStateFlag ==
    [][fn.kind = "run" =>
          /\ fn.last_set = None => get_system_state(fn.system_state) = "RUNNING"
          /\ fn'.last_set # None =>
                /\ The(fn'.last_set).raised
                       <=> The(fn'.last_set).state \notin {"RUNNING", "PAUSE"}
                /\ The(fn'.last_set).raised => fn'.system_state = fn.system_state
                /\ ~The(fn'.last_set).raised =>
                       get_system_state(fn'.system_state) = The(fn'.last_set).state]_vars

C13_Witness ==
    /\ fn.kind = "run"
    /\ fn.last_set = Some([state |-> "PAUSED", raised |-> TRUE])
    /\ fn.system_state = Some("PAUSE")

C18_Pause ==
    [][fn.kind = "run" =>
          /\ (fn.cw_loop \in {"top", "item"} /\ fn'.cw_loop \in {"running", "paused"})
                => (fn'.cw_loop = "paused"
                        <=> fn.system_state \notin {None, Some("RUNNING")})
          /\ (fn.sw_loop \in {"top", "item"} /\ fn'.sw_loop \in {"running", "paused"})
                => (fn'.sw_loop = "paused"
                        <=> fn.system_state \notin {None, Some("RUNNING")})
          /\ fn.cw_loop = "paused" =>
                /\ cw' = cw /\ q_url' = q_url /\ store_url' = store_url
                /\ fn'.cw_loop # "paused" =>
                      /\ fn'.cw_loop \in {"top", "stopped"}
                      /\ UNCHANGED <<store_prefix, q_prefix>>
          /\ fn.sw_loop = "paused" =>
                /\ sw' = sw
                /\ fn'.sw_loop # "paused" =>
                      /\ fn'.sw_loop \in {"top", "stopped"}
                      /\ UNCHANGED <<store_prefix, store_url, q_url, q_prefix>>
          /\ (fn.cw_loop = "item" /\ cw[1].pc # "idle") =>
                /\ fn'.cw_loop \in {"item", "stopped"}
                /\ ENABLED RunCwItem
          /\ (fn.sw_loop = "item" /\ sw[1].pc # "idle") =>
                /\ fn'.sw_loop \in {"item", "stopped"}
                /\ ENABLED RunSwItem]_vars

C18_Witness ==
    /\ fn.kind = "run"
    /\ fn.system_state = Some("PAUSE") /\ fn.sw_loop = "paused"
    /\ fn.cw_loop = "item" /\ cw[1].pc = "done" /\ cw[1].result = "requeued"
    /\ Len(q_prefix) = 1

CountOps(log, op) == Cardinality({i \in 1..Len(log) : log[i].op = op})

\* the worker took the branch for a URL without prefix or without config
NoConfigPath(c) == "fetch" \in LogOps(c.log) /\ "load_url" \notin LogOps(c.log)

\* C15: when the fetch fails, with or without a config on the prefix, or the
\* extraction fails, the item ends with the result `error`; an item that
\* ends so has only read: it was not pushed back, no URL row and no prefix
\* was written, and nothing was pushed onto either queue.
C15_FailureTerminal ==
    \A w \in CrawlWorkers :
      LET c == cw[w]
      IN  /\ ("fetch" \in LogOps(c.log) /\ c.raw = "")
               => c.pc = "done" /\ c.result = "error"
          /\ (c.pc = "done" /\ c.result = "error")
               => /\ LogOps(c.log) \subseteq
                        {"load_prefix", "scan_urls", "load_url", "fetch"}
                  /\ c.log[Len(c.log)].op = "fetch"
                  /\ c.saved = None

\* C15 witness: the fetch of the first page of a fresh deployment failed:
\* no prefix exists and both queues are empty
C15_Witness ==
    \E w \in CrawlWorkers :
      /\ cw[w].pc = "done" /\ cw[w].result = "error"
      /\ NoConfigPath(cw[w])
      /\ store_prefix = EmptyStore /\ store_url = EmptyStore
      /\ q_url = <<>> /\ q_prefix = <<>>

\* C16 as stated: an item that took the branch without prefix or config is
\* pushed back onto the URL queue whether its fetch succeeded or failed.
C16_RequeuedRegardless ==
    \A w \in CrawlWorkers :
      (cw[w].pc = "done" /\ NoConfigPath(cw[w]))
          => "push_url" \in LogOps(cw[w].log)

\* C16, amended: an item that took the branch without prefix or config is
\* pushed back onto the URL queue exactly when its fetch succeeded, ending as
\* `requeued`; when the fetch failed it ends as `error` and is not pushed.
C16_RequeuedAfterFetch ==
    \A w \in CrawlWorkers :
      LET c == cw[w]
      IN  (c.pc = "done" /\ NoConfigPath(c))
              => /\ CountOps(c.log, "push_url") = (IF c.raw # "" THEN 1 ELSE 0)
                 /\ c.result = (IF c.raw # "" THEN "requeued" ELSE "error")

\* C16 witness: an item whose prefix is stored without config was requeued
C16_Witness ==
    \E w \in CrawlWorkers :
      /\ cw[w].pc = "done" /\ cw[w].result = "requeued"
      /\ cw[w].prefix # None /\ The(cw[w].prefix).parser_config = None

\* C19: the step that ends an item as `requeued` follows a successful fetch
\* on the branch without prefix or config; by then the worker has saved,
\* once, the prefix at get_deepest_prefix(url) with this page appended to
\* the samples it loaded (or alone, when nothing was stored), pushed that
\* prefix once, and written no URL row; the step pushes the item once, with
\* process_from_unix_timestamp = now + 30 and times_queued + 1.
C19_RequeuePath ==
    [][\A w \in CrawlWorkers :
         (cw[w].pc # "done" /\ cw'[w].pc = "done" /\ cw'[w].result = "requeued")
            => LET c       == cw'[w]
                   item    == cw[w].item
                   deepest == get_deepest_prefix(item.url)
                   sample  == SampleURL(item.url, RawOf(item.url))
               IN  /\ cw[w].pc = "nc_requeue"
                   /\ NoConfigPath(c)
                   /\ c.prefix = None \/ The(c.prefix).parser_config = None
                   /\ c.saved =
                        Some(IF c.existing # None
                             THEN [The(c.existing) EXCEPT
                                      !.sample_urls = Append(@, sample)]
                             ELSE URLPrefix(deepest, <<sample>>, None, "none"))
                   /\ CountOps(c.log, "save_prefix") = 1
                   /\ CountOps(c.log, "push_prefix") = 1
                   /\ CountOps(c.log, "push_url") = 1
                   /\ CountOps(c.log, "save_url") = 0
                   /\ \A i \in 1..Len(c.log) :
                         c.log[i].op \in {"save_prefix", "push_prefix"}
                            => /\ c.log[i].key = deepest
                               /\ c.log[i].val = The(c.saved).sample_urls
                   /\ q_url' = <<[item EXCEPT
                                     !.process_from_unix_timestamp = now + 30,
                                     !.times_queued = item.times_queued + 1]>>
                               \o q_url
                   /\ UNCHANGED <<store_prefix, store_url, q_prefix>>]_vars

\* C19 witness: the requeued item added a second sample to a stored prefix
C19_Witness ==
    \E w \in CrawlWorkers :
      /\ cw[w].pc = "done" /\ cw[w].result = "requeued"
      /\ cw[w].existing # None
      /\ Len(The(cw[w].saved).sample_urls) = 2
      /\ Len(q_url) > 0 /\ q_url[1].times_queued = 2

\* C20: when the worker looks up the URL row of a due item whose prefix has a
\* config and fewer than 20 rows, the item ends as `skipped` exactly when
\* the row exists with non-empty parsed content; a skipped item was never
\* fetched, and the worker has written nothing and pushed nothing.
C20_Skip ==
    [][\A w \in CrawlWorkers :
         /\ (cw[w].pc = "load_url" /\ cw'[w] # cw[w])
              => LET row == load(store_url, cw[w].item.url)
                 IN  /\ The(cw[w].prefix).parser_config # None
                     /\ cw[w].count < URL_CAP
                     /\ (cw'[w].pc = "done" /\ cw'[w].result = "skipped")
                           <=> (row # None /\ The(row).parsed_content # "")
         /\ (cw'[w].pc = "done" /\ cw'[w].result = "skipped")
              => /\ cw[w].pc \in {"load_url", "done"}
                 /\ LogOps(cw'[w].log) \subseteq
                       {"load_prefix", "scan_urls", "load_url"}
                 /\ cw[w].pc = "load_url"
                       => UNCHANGED <<store_prefix, store_url, q_url, q_prefix>>]_vars

\* C20 witness: a page stored with its text was submitted again and skipped
C20_Witness ==
    \E w \in CrawlWorkers :
      /\ cw[w].pc = "done" /\ cw[w].result = "skipped"
      /\ cw[w].count < URL_CAP
      /\ cw[w].item.url \in DOMAIN store_url
      /\ store_url[cw[w].item.url].parsed_content # ""

\* the log entries with the given op, in order
OpsOf(log, op) == SelectSeq(log, LAMBDA e : e.op = op)

\* C21: on the branch with a config, after a successful fetch and extraction
\* the worker stores the URL row of the item with the raw content, the
\* extracted text and the prefix of the config; it then looks up every
\* extracted same-prefix outlink, in order, and pushes a new item with
\* times_queued = 0 and process_from_unix_timestamp = now for exactly those
\* without a stored row with non-empty parsed content; the item ends as
\* `success` with one row saved, the original item not pushed back and no
\* prefix written or pushed.
C21_SuccessPath ==
    [][\A w \in CrawlWorkers :
         LET c == cw[w]
             d == cw'[w]
         IN  /\ (c.pc = "save_url" /\ d # c)
                  => /\ d.pc = "link_load"
                     /\ The(c.prefix).parser_config # None
                     /\ store_url' =
                          save(store_url, c.item.url,
                               URLRow(c.item.url, The(c.prefix).prefix,
                                      RawOf(c.item.url),
                                      The(ParseOutcome(RawOf(c.item.url)))))
                     /\ d.links = ExtractLinks(c.item.url, The(c.prefix).prefix)
                     /\ UNCHANGED <<store_prefix, q_url, q_prefix>>
             /\ (c.pc = "link_load" /\ d # c /\ c.links # <<>>)
                  => LET row == load(store_url, Head(c.links))
                     IN  /\ UNCHANGED <<store_prefix, store_url, q_url, q_prefix>>
                         /\ IF row # None /\ The(row).parsed_content # ""
                            THEN d.pc = "link_load" /\ d.links = Tail(c.links)
                            ELSE d.pc = "link_push" /\ d.links = c.links
             /\ (c.pc = "link_push" /\ d # c)
                  => /\ q_url' = <<[url |-> Head(c.links),
                                    prefix |-> The(c.prefix).prefix,
                                    process_from_unix_timestamp |-> now,
                                    times_queued |-> 0]>> \o q_url
                     /\ d.pc = "link_load" /\ d.links = Tail(c.links)
                     /\ UNCHANGED <<store_prefix, store_url, q_prefix>>
             /\ (c.pc # "done" /\ d.pc = "done" /\ d.result = "success")
                  => /\ c.pc = "link_load" /\ c.links = <<>>
                     /\ CountOps(d.log, "save_url") = 1
                     /\ CountOps(d.log, "fetch") = 1
                     /\ LogOps(d.log) \subseteq {"load_prefix", "scan_urls", "load_url",
                                                 "fetch", "save_url", "push_url"}
                     /\ \A i \in 1..Len(d.log) :
                           d.log[i].op = "push_url"
                              => /\ d.log[i].key # d.item.url
                                 /\ d.log[i].tq = 0
                                 /\ d.log[i - 1] = Eff("load_url", d.log[i].key,
                                                       0, 0, "", <<>>)
                     /\ [i \in 1..Len(OpsOf(d.log, "load_url")) |->
                            OpsOf(d.log, "load_url")[i].key]
                          = <<d.item.url>>
                              \o ExtractLinks(d.item.url, The(d.prefix).prefix)
                     /\ UNCHANGED <<store_prefix, store_url, q_url, q_prefix>>]_vars

\* C21 witness: EmptyPage was stored and ended as success: of its two
\* outlinks, BrokenPage was pushed and FlakyPage, already stored with its
\* text, was not
C21_Witness ==
    \E w \in CrawlWorkers :
      /\ cw[w].pc = "done" /\ cw[w].result = "success"
      /\ cw[w].item.url = PageUrl(EmptyPage)
      /\ [i \in 1..Len(OpsOf(cw[w].log, "push_url")) |->
             OpsOf(cw[w].log, "push_url")[i].key] = <<PageUrl(BrokenPage)>>
      /\ store_url[PageUrl(EmptyPage)].parsed_content = ""

\* C22: when the synthesis worker has loaded the stored copy of the prefix it
\* dequeued, the job ends as `skipped` exactly when the stored status is
\* in_progress; a skipped job has called no provider and written nothing,
\* and neither this step nor the end of the iteration pushes the prefix
\* back onto the prefix queue.
C22_InProgressGuard ==
    [][\A s \in SynthWorkers :
         LET c == sw[s]
             d == sw'[s]
             stored == load(store_prefix, c.job.prefix)
         IN  /\ (c.pc = "load" /\ d # c)
                  => /\ (d.pc = "done" /\ d.result = "skipped")
                           <=> (stored # None
                                /\ The(stored).processing_status = "in_progress")
                     /\ UNCHANGED <<store_prefix, store_url, q_url, q_prefix>>
             /\ (d.pc = "done" /\ d.result = "skipped")
                  => /\ c.pc \in {"load", "done"}
                     /\ d.log = <<>>
             /\ (c.pc = "done" /\ c.result = "skipped" /\ d # c)
                  => /\ d = SwIdle
                     /\ UNCHANGED <<store_prefix, store_url, q_url, q_prefix>>]_vars

\* C22 witness: one worker is in the provider call for the docs prefix and
\* the other has skipped a second queued copy of it
C22_Witness ==
    \E s \in SynthWorkers, t \in SynthWorkers :
      /\ sw[s].pc = "done" /\ sw[s].result = "skipped"
      /\ sw[t].pc = "generate" /\ sw[t].url_prefix.prefix = sw[s].job.prefix
      /\ store_prefix[sw[s].job.prefix].processing_status = "in_progress"

\* C23: nothing orders the status read of one synthesis worker against the
\* in_progress write of another: every save of a synthesis worker replaces
\* the stored prefix by the copy that worker holds, whatever was stored and
\* whoever stored it, and two workers that both hold the same prefix after
\* the status check have both read a status other than in_progress.
C23_LastWriteWins ==
    [][\A s \in SynthWorkers :
         LET c == sw[s]
             d == sw'[s]
         IN  /\ (c.pc \in {"reset", "mark", "complete", "failed"} /\ d # c)
                  => store_prefix' = [k \in DOMAIN store_prefix \cup {d.url_prefix.prefix}
                                        |-> IF k = d.url_prefix.prefix
                                            THEN d.url_prefix ELSE store_prefix[k]]
             /\ \A t \in SynthWorkers :
                  (/\ s # t
                   /\ d.pc \in {"mark", "generate", "complete", "failed"}
                   /\ sw'[t].pc \in {"mark", "generate", "complete", "failed"}
                   /\ d.job.prefix = sw'[t].job.prefix)
                      => \/ d.existing = None
                         \/ The(d.existing).processing_status # "in_progress"]_vars

\* C23 witness: both workers are in the provider call for the same prefix,
\* and the stored copy is the in_progress write of one of them
C23_Witness ==
    \E s \in SynthWorkers, t \in SynthWorkers :
      /\ s # t
      /\ sw[s].pc = "generate" /\ sw[t].pc = "generate"
      /\ sw[s].job.prefix = sw[t].job.prefix
      /\ Len(sw[s].url_prefix.sample_urls) # Len(sw[t].url_prefix.sample_urls)
      /\ store_prefix[sw[s].job.prefix] = sw[t].url_prefix

\* the positions of sample_urls whose sample is in raises
RaisingAt(sample_urls, raises) ==
    {i \in 1..Len(sample_urls) : sample_urls[i] \in raises}

\* C24: the validation that follows a generation call at attempt size n runs
\* the produced config on every sample of the prefix, not only the first n;
\* it reports the first sample, in list order, on which the extraction
\* raises, and it reports success only when the extraction raises on no
\* sample.
C24_ValidationCoversAll ==
    [][(fn.kind = "gen" /\ fn.pc = "validate" /\ fn'.pc # "validate")
        => /\ fn'.validated = Append(fn.validated, fn.sample_urls)
           /\ fn'.success <=> RaisingAt(fn.sample_urls, fn.raises) = {}
           /\ RaisingAt(fn.sample_urls, fn.raises) = {}
                 => fn'.failed_sample = fn.failed_sample
           /\ RaisingAt(fn.sample_urls, fn.raises) # {}
                 => /\ fn'.failed_sample \in fn.raises
                    /\ \A i \in RaisingAt(fn.sample_urls, fn.raises) :
                          fn'.failed_sample <= fn.sample_urls[i]]_vars

C24_Witness ==
    /\ fn.kind = "gen" /\ fn.pc = "repair"
    /\ fn.num_examples < fn.failed_sample
    /\ Cardinality(fn.raises) = MaxRaising
    /\ \A x \in fn.raises : fn.failed_sample <= x
    /\ fn.validated[Len(fn.validated)] = fn.sample_urls

\* C25 as stated: when validation of a generated config fails and a repair
\* prompt is configured, one repair call is made for that attempt, with
\* only the failing sample, and its answer is validated against all
\* samples; a repaired config that raises on no sample is accepted, so that
\* generate_parser goes on to return it or reflect on it without a further
\* generation call, and one that still raises makes generate_parser raise.
C25_Repair ==
    [][(/\ fn.kind = "gen" /\ fn.pc = "repair"
        /\ Len(fn'.calls) = Len(fn.calls) + 1
        /\ fn'.calls[Len(fn'.calls)].outcome = "ok")
        => /\ fn'.calls[Len(fn'.calls)].kind = "repair"
           /\ fn'.calls[Len(fn'.calls)].prompt = <<fn.failed_sample>>
           /\ fn.calls[Len(fn.calls)].kind = "generate"
           /\ fn'.validated = Append(fn.validated, fn.sample_urls)
           /\ RaisingAt(fn.sample_urls, fn'.raises) = {}
                 => fn'.success /\ fn'.pc = "loop"
           /\ RaisingAt(fn.sample_urls, fn'.raises) # {}
                 => fn'.pc = "done" /\ fn'.result = "raised"]_vars

\* C26: a generation or repair call that fails with an error other than the
\* context-window one, and a failed validation when no repair prompt is
\* configured, make generate_parser raise at once: the sample count keeps
\* its value, and nothing, a provider call least of all, follows the raise.
C26_NoRetry ==
    [][fn.kind = "gen"
        => /\ (/\ Len(fn'.calls) = Len(fn.calls) + 1
               /\ fn'.calls[Len(fn'.calls)].kind \in {"generate", "repair"}
               /\ fn'.calls[Len(fn'.calls)].outcome = "error")
                 => /\ fn'.pc = "done" /\ fn'.result = "raised"
                    /\ fn'.num_examples = fn.num_examples
           /\ (/\ fn.pc = "validate" /\ ~fn.error_prompt
               /\ RaisingAt(fn.sample_urls, fn.raises) # {})
                 => /\ fn'.pc = "done" /\ fn'.result = "raised"
                    /\ fn'.num_examples = fn.num_examples
                    /\ fn'.calls = fn.calls
           /\ fn.pc # "done"]_vars

C26_Witness ==
    /\ fn.kind = "gen" /\ fn.pc = "done" /\ fn.result = "raised"
    /\ fn.num_examples \in 1..(Len(fn.sample_urls) - 1)
    /\ fn.calls[Len(fn.calls)].kind = "repair"
    /\ fn.calls[Len(fn.calls)].outcome = "error"

\* C27 as stated: a context-window error of any provider call of
\* generate_parser, a generation, repair or reflection call, made while the
\* sample count is above zero is not raised to the caller: it lowers the
\* sample count by one and the loop goes on.
C27_OverflowAbsorbed ==
    [][(/\ fn.kind = "gen" /\ fn.num_examples > 0
        /\ Len(fn'.calls) = Len(fn.calls) + 1
        /\ fn'.calls[Len(fn'.calls)].outcome = "overflow")
        => /\ fn'.num_examples = fn.num_examples - 1
           /\ fn'.pc = "loop" /\ fn'.result = "none"]_vars

\* the selectors that the responses hold in field f, f given as a function
\* from a ParserParameters to its list
ResponseUnion(responses, f(_)) ==
    UNION {set(f(responses[i])) : i \in 1..Len(responses)}

RootOf(p) == p.root

KeepOf(p) == p.keep

DropOf(p) == p.drop

UnwrapOf(p) == p.unwrap

\* C28: with a reflection prompt, once validation has succeeded
\* generate_parser makes one reflection call per sample of the prefix, in
\* list order, and returns a config of the prefix's name whose root, keep,
\* drop and unwrap selectors are, as sets, the unions of those of the
\* answers, the validated config's own selectors not being added; without a
\* reflection prompt it returns the validated config itself.
C28_ReflectionMerge ==
    (fn.kind = "reflect" /\ fn.pc = "done")
        => /\ fn.returned # None
           /\ fn.returned = Some(fn.parser)
           /\ fn.reflection_prompt
                 => /\ fn.calls = fn.sample_urls
                    /\ The(fn.returned).prefix_name = fn.prefix
                    /\ set(The(fn.returned).parameters.root)
                          = ResponseUnion(fn.responses, RootOf)
                    /\ set(The(fn.returned).parameters.keep)
                          = ResponseUnion(fn.responses, KeepOf)
                    /\ set(The(fn.returned).parameters.drop)
                          = ResponseUnion(fn.responses, DropOf)
                    /\ set(The(fn.returned).parameters.unwrap)
                          = ResponseUnion(fn.responses, UnwrapOf)
           /\ ~fn.reflection_prompt
                 => /\ fn.calls = <<>>
                    /\ fn.returned \in {Some(c) : c \in ValidatedConfigs}

C28_Witness ==
    /\ fn.kind = "reflect" /\ fn.pc = "done" /\ fn.reflection_prompt
    /\ Len(fn.calls) = MaxReflectSamples
    /\ fn.responses[1].root = <<"div">> /\ fn.responses[1].unwrap = <<>>
    /\ fn.responses[2].root = <<"p", "div">> /\ fn.responses[2].keep = <<>>
    /\ fn.responses[3].keep = <<"p", "p">> /\ fn.responses[3].unwrap = <<"span">>
    /\ The(fn.returned).parameters.root = <<"div", "p">>
    /\ The(fn.returned).parameters.keep = <<"p">>
    /\ The(fn.returned).parameters.unwrap = <<"span">>

\* the tags of a tree
Elements(soup) == {i \in soup.alive : soup.nodes[i].name # "#text"}

\* its html, head and body
Containers(soup) ==
    {i \in soup.alive : soup.nodes[i].name \in {"html", "head", "body"}}

\* every tag of the tree after is a container, one of matches, below one of
\* them or above one of them in the tree before
RestrictedTo(before, after, matches) ==
    \A i \in Elements(after) :
        \/ i \in Containers(after)
        \/ i \in matches
        \/ parents(before, i) \cap matches # {}
        \/ \E m \in matches : i \in parents(before, m)

\* C29 as stated: when root, or keep, is not empty, every element left by
\* that step other than html, head and body is a matched element, a
\* descendant of one or an ancestor of one, so that selectors which match
\* nothing leave html, head and body only; the step never deletes html,
\* head or body.
C29_Restriction ==
    [][fn.kind = "parse"
        => /\ (fn.stage = "parsed" /\ fn.parameters.root # <<>>)
                 => /\ RestrictedTo(fn.soup, fn'.soup,
                                    select_all(fn.soup, fn.parameters.root))
                    /\ Containers(fn.soup) \subseteq fn'.soup.alive
           /\ (fn.stage = "unwrapped" /\ fn.parameters.keep # <<>>)
                 => /\ RestrictedTo(fn.soup, fn'.soup,
                                    select_all(fn.soup, fn.parameters.keep))
                    /\ Containers(fn.soup) \subseteq fn'.soup.alive]_vars

\* C29, amended: when root, or keep, is not empty and matches at least one
\* element, every element left by that step other than html, head and body
\* is a matched element, a descendant of one or an ancestor of one; when
\* the selectors match no element the step leaves the tree as it is; the
\* step never deletes html, head or body.
C29_RestrictionOnMatch ==
    [][fn.kind = "parse"
        => /\ (/\ fn.stage = "parsed" /\ fn.parameters.root # <<>>
               /\ select_all(fn.soup, fn.parameters.root) # {})
                 => RestrictedTo(fn.soup, fn'.soup,
                                 select_all(fn.soup, fn.parameters.root))
           /\ (/\ fn.stage = "unwrapped" /\ fn.parameters.keep # <<>>
               /\ select_all(fn.soup, fn.parameters.keep) # {})
                 => RestrictedTo(fn.soup, fn'.soup,
                                 select_all(fn.soup, fn.parameters.keep))
           /\ (/\ fn.stage = "parsed" /\ fn.parameters.root # <<>>
               /\ select_all(fn.soup, fn.parameters.root) = {})
                 => fn'.soup = fn.soup
           /\ (/\ fn.stage = "unwrapped" /\ fn.parameters.keep # <<>>
               /\ select_all(fn.soup, fn.parameters.keep) = {})
                 => fn'.soup = fn.soup
           /\ fn.stage \in {"parsed", "unwrapped"}
                 => Containers(fn.soup) \subseteq fn'.soup.alive]_vars

\* root = ["main"] has removed title and nav, keep = ["p"] has then removed
\* script; html, head and body are still there
C29_Witness ==
    /\ fn.kind = "parse" /\ fn.stage = "trimmed"
    /\ fn.parameters = ParserParameters(<<"main">>, <<"p">>, <<>>, <<>>)
    /\ fn.doc = ParseDocHead(<<"X">>, <<"H", "e", "l", "l", "o">>)
    /\ The(fn.after_root).alive = {1, 2, 5, 8, 9, 10, 11, 12}
    /\ fn.soup.alive = {1, 2, 5, 8, 9, 10}

RECURSIVE Spliced(_, _, _)
\* the children ks with each unwrapped one replaced, in place, by its children
Spliced(before, ks, unwrapped) ==
    IF ks = <<>> THEN <<>>
    ELSE (IF Head(ks) \in unwrapped
          THEN Spliced(before, children(before, Head(ks)), unwrapped)
          ELSE <<Head(ks)>>)
         \o Spliced(before, Tail(ks), unwrapped)

\* the text nodes of the tree
TextNodes(soup) == {i \in soup.alive : soup.nodes[i].name = "#text"}

\* C30: the steps run in the order root, drop, unwrap, keep.  Every element
\* that matches a drop selector in the tree left by the root step is removed
\* with its whole subtree, whatever the keep selectors match, and its text
\* is not in the output; the children of an unwrapped element take its place
\* among the children of its parent; and the keep step counts only the
\* matches in the tree left by drop and unwrap.
C30_PipelineOrder ==
    [][fn.kind = "parse"
        => /\ fn.stage = "parsed" => fn'.stage = "rooted"
           /\ fn.stage = "rooted"
                 => /\ fn'.stage = "dropped"
                    /\ fn.soup = The(fn.after_root)
                    /\ \A i \in select_all(fn.soup, fn.parameters.drop) :
                          /\ i \notin fn'.soup.alive
                          /\ \A j \in fn.soup.alive :
                                i \in parents(fn.soup, j) => j \notin fn'.soup.alive
           /\ fn.stage = "dropped"
                 => /\ fn'.stage = "unwrapped"
                    /\ select_all(fn.soup, fn.parameters.unwrap) \cap fn'.soup.alive = {}
                    /\ fn'.soup.alive \cup select_all(fn.soup, fn.parameters.unwrap)
                          = fn.soup.alive
                    /\ \A p \in Elements(fn'.soup) \cup {0} :
                          children(fn'.soup, p)
                             = Spliced(fn.soup, children(fn.soup, p),
                                       select_all(fn.soup, fn.parameters.unwrap))
           /\ fn.stage = "unwrapped"
                 => /\ fn'.stage = "trimmed"
                    /\ fn.soup = The(fn.after_unwrap)
                    /\ select_all(fn.soup, fn.parameters.keep) = {}
                          => fn'.soup = fn.soup
                    /\ select_all(fn.soup, fn.parameters.keep) # {}
                          => RestrictedTo(fn.soup, fn'.soup,
                                 select_all(fn.soup, fn.parameters.keep))
           /\ fn.stage = "trimmed"
                 => /\ fn'.stage = "done"
                    /\ \A j \in TextNodes(The(fn.after_root)) :
                          (/\ parents(The(fn.after_root), j)
                                 \cap select_all(The(fn.after_root),
                                                 fn.parameters.drop) # {}
                           /\ \A k \in TextNodes(fn.soup) :
                                 ~str_contains(fn.soup.nodes[k].text,
                                      str_strip(fn.doc.nodes[j].text)))
                             => ~str_contains(The(fn'.text),
                                      str_strip(fn.doc.nodes[j].text))]_vars

\* drop = ["p"] has removed the p that keep = ["p"] names, unwrap = ["main"]
\* has moved script up into body, keep has found nothing to restrict to, and
\* the output is the nav text alone
C30_Witness ==
    /\ fn.kind = "parse" /\ fn.stage = "done" /\ ~fn.script_text
    /\ fn.parameters = ParserParameters(<<>>, <<"p">>, <<"p">>, <<"main">>)
    /\ fn.doc = ParseDoc(<<"X">>, <<"H", "e", "l", "l", "o">>)
    /\ fn.soup.alive = {1, 2, 3, 4, 8, 9}
    /\ fn.soup.nodes[8].parent = 2
    /\ fn.text = Some(<<"X">>)

\* the path p with its trailing slashes removed
RECURSIVE WithoutTrailingSlashes(_)
WithoutTrailingSlashes(p) ==
    IF p # <<>> /\ p[Len(p)] = "/"
    THEN WithoutTrailingSlashes(SubSeq(p, 1, Len(p) - 1))
    ELSE p

\* C31: for an http or https URL u, get_deepest_prefix(u) is u without
\* query and fragment and without its last path segment when u has a path
\* below the domain, and scheme://host otherwise, for u = scheme://host/
\* and for a path with a trailing slash too; the result starts with
\* scheme://host and u starts with the result.
C31_PrefixDerivation ==
    (fn.kind = "prefix" /\ fn.out # None)
        => /\ str_startswith(The(fn.out), fn.root)
           /\ str_startswith(fn.url, The(fn.out))
           /\ WithoutTrailingSlashes(fn.path) = <<>> => The(fn.out) = fn.root
           /\ WithoutTrailingSlashes(fn.path) # <<>>
                 => \E seg \in {Slice(fn.path, i, j) : i, j \in 1..Len(fn.path)} :
                       /\ seg # <<>> /\ ~str_contains(seg, <<"/">>)
                       /\ WithoutTrailingSlashes(fn.root \o fn.path)
                             = The(fn.out) \o <<"/">> \o seg

\* C32: generate_parser terminates when every provider call returns or
\* raises.  An iteration of its loop ends with the success flag newly set,
\* with an exception raised out of generate_parser, or with the sample count
\* strictly lower and not below zero; the loop is left once success is set
\* or the count is zero; and every run reaches the return or the raise.
C32_Termination ==
    /\ [][fn.kind = "gen"
            => /\ (fn.pc \in {"generate", "validate", "repair"}
                      /\ fn'.pc \notin {"validate", "repair"})
                     => \/ fn'.pc = "done" /\ fn'.result = "raised"
                        \/ /\ fn'.pc = "loop" /\ fn'.success /\ ~fn.success
                           /\ fn'.num_examples = fn.num_examples
                        \/ /\ fn'.pc = "loop" /\ fn'.success = fn.success
                           /\ fn'.num_examples < fn.num_examples
                           /\ fn'.num_examples >= 0
               /\ (fn.pc = "loop" /\ (fn.success \/ fn.num_examples = 0))
                     => fn'.pc \in {"reflect", "return", "raise"}]_vars
    /\ <>(fn.kind = "gen" /\ fn.pc = "done")

\* a run that lost a generation and a repair to the context window and then
\* returned
C32_Witness ==
    /\ fn.kind = "gen" /\ fn.pc = "done" /\ fn.result = "returned"
    /\ fn.num_examples = Len(fn.sample_urls) - 2
    /\ \E i \in 1..Len(fn.calls) :
          fn.calls[i].kind = "repair" /\ fn.calls[i].outcome = "overflow"
    /\ \E i \in 1..Len(fn.calls) :
          fn.calls[i].kind = "generate" /\ fn.calls[i].outcome = "overflow"

\* C33: the config of every parser that generate_parser returns runs
\* through the extraction engine on every sample of the prefix without
\* raising, the merged reflection result included.
C33_ReturnedValidated ==
    (fn.kind = "reflect" /\ fn.pc = "done")
        => /\ fn.returned # None
           /\ ~select_raises(The(fn.returned).parameters)
\* C34 (as claimed): once the store holds a parser config for a prefix, every
\* later stored version of that prefix also has one: no step of a crawl or
\* synthesis worker writes the prefix back without its config.
C34_ConfigPersists ==
    [][\A p \in DOMAIN store_prefix :
         store_prefix[p].parser_config # None
           => /\ p \in DOMAIN store_prefix'
              /\ store_prefix'[p].parser_config # None]_vars
(***************************************************************************)
(* One crawl worker and one synthesis worker, each started once through    *)
(* run.py (`parsing-worker`, `parser-generation-worker`), running to       *)
(* completion: each worker's loop keeps taking its next step (while True   *)
(* in parsing_worker.py and parser_generation_worker.py,                   *)
(* every fetch and provider call returning or raising) and the wall clock  *)
(* keeps moving.  Besides the deployments of Init there is one where two   *)
(* pages of a site without prefix were submitted together.                 *)
(***************************************************************************)
InitTwoSeeds ==
    /\ store_prefix = EmptyStore
    /\ store_url = EmptyStore
    /\ q_url = <<URLQueueItem(PageUrl(2), <<>>, 0, 0),
                 URLQueueItem(PageUrl(1), <<>>, 0, 0)>>
    /\ q_prefix = <<>>
    /\ now = 0

InitPair ==
    /\ InitFresh \/ InitNearCap \/ InitAtCap \/ InitResubmitted \/ InitTwoSeeds
    /\ cw = [w \in CrawlWorkers |-> CwIdle]
    /\ sw = [s \in SynthWorkers |-> SwIdle]
    /\ fn = FnIdle

NextPair ==
    \/ CrawlStep(1)
    \/ SynthStep(1)
    \/ Tick

SpecPair ==
    /\ InitPair
    /\ [][NextPair]_vars
    /\ WF_vars(CrawlStep(1))
    /\ WF_vars(SynthStep(1))
    /\ WF_vars(Tick)

StoredWithStatus(p, statuses) ==
    /\ p \in DOMAIN store_prefix
    /\ store_prefix[p].processing_status \in statuses

\* C35 (as claimed): with one crawl worker and one synthesis worker, a prefix
\* stored with status in_progress is eventually stored with status completed
\* or failed.
C35_NoStuckInProgress ==
    StoredWithStatus(DocsPrefix, {"in_progress"})
      ~> StoredWithStatus(DocsPrefix, {"completed", "failed"})
\* C36: a prefix stored with status completed has a parser config, whichever
\* worker stored it and however the workers' steps interleave.
C36_CompletedHasConfig ==
    \A p \in DOMAIN store_prefix :
      store_prefix[p].processing_status = "completed"
        => store_prefix[p].parser_config # None

\* the stored prefix is completed and was written by a crawl worker: it loaded
\* the prefix after the synthesis worker had completed it and saved it with
\* its own sample appended
C36_Witness ==
    \E w \in CrawlWorkers :
      /\ cw[w].saved # None
      /\ The(cw[w].saved).processing_status = "completed"
      /\ DocsPrefix \in DOMAIN store_prefix
      /\ store_prefix[DocsPrefix] = The(cw[w].saved)
      /\ \E s \in SynthWorkers : sw[s].result = "success"
\* C37 (as claimed): the stored sample list of a prefix contains each URL at
\* most once, however often the same crawl item is requeued while the prefix
\* has no config.
C37_NoDuplicateSamples ==
    \A p \in DOMAIN store_prefix :
      LET samples == store_prefix[p].sample_urls
      IN  \A i, j \in 1..Len(samples) :
            samples[i].url = samples[j].url => i = j
SampleUrlsOf(url_prefix) ==
    {url_prefix.sample_urls[i].url : i \in 1..Len(url_prefix.sample_urls)}

\* C38 (as claimed): a sample URL held by the stored version of a prefix is
\* held by every later stored version of it: no save by either worker, that
\* of the synthesis worker's queued copy included, removes a sample.
C38_SamplesKept ==
    [][\A p \in DOMAIN store_prefix :
         /\ p \in DOMAIN store_prefix'
         /\ SampleUrlsOf(store_prefix[p]) \subseteq SampleUrlsOf(store_prefix'[p])]_vars
RECURSIVE prefix_lookup(_, _, _)
\* for i in range(len(url_parts), 0, -1): the first '/'.join(url_parts[:i])
\* that load(URLPrefix, ...) finds among the stored prefixes
prefix_lookup(stored, url_parts, i) ==
    IF i = 0 THEN None
    ELSE LET potential_prefix == str_join(SubSeq(url_parts, 1, i), <<"/">>)
         IN  IF potential_prefix \in stored THEN Some(potential_prefix)
             ELSE prefix_lookup(stored, url_parts, i - 1)

\* db.find_prefix_for_url on URLs as strings, stored the keys of the prefix
\* store
find_prefix_for_url_str(stored, url) ==
    LET url_parts == str_split(url, <<"/">>)
    IN  prefix_lookup(stored, url_parts, Len(url_parts))

\* C39 (as claimed): every outlink extracted for a page of prefix P resolves,
\* through find_prefix_for_url with P the only stored prefix, to P itself and
\* never to no prefix.
C39_OutlinksInPrefix ==
    (fn.kind = "links" /\ fn.out # None)
      => \A i \in 1..Len(The(fn.out)) :
           find_prefix_for_url_str({fn.target_prefix}, The(fn.out)[i])
             = Some(fn.target_prefix)
\* C40 (as claimed): once a success has stored the row of a URL, with empty
\* extracted text or not, a later queue item for that URL is not taken on to
\* the fetch, and a later success of another page does not enqueue the URL
\* again.
C40_NoRefetch ==
    [][\A w \in CrawlWorkers :
         /\ (cw[w].pc = "load_url" /\ cw'[w].pc = "fetch")
              => cw[w].item.url \notin DOMAIN store_url
         /\ (cw[w].pc = "link_load" /\ cw'[w].pc = "link_push")
              => Head(cw[w].links) \notin DOMAIN store_url]_vars

====
